---------------------------- MODULE Spec2Model ----------------------------
(***************************************************************************)
(* A model of the Saleor dashboard client (dashboard-next) state handling: *)
(*   - the Apollo link chain of index.tsx (error link, auth link),         *)
(*   - the optimistic product-image reorder mutation,                      *)
(*   - bulk selection in list components,                                  *)
(*   - the URL-driven dialog state of the list views,                      *)
(*   - TypedMutation's error handling,                                     *)
(*   - form errors, pagination state and controls, create handlers,        *)
(*   - getVariantAttributeErrors,                                          *)
(*   - the storefront VariantPicker and cart page,                         *)
(*   - the legacy dashboard's modals,                                      *)
(*   - the dialogs and fulfillment requests of the order details view.     *)
(* Each part has its own specification over the module's variables; the    *)
(* variables of the other parts keep their initial values.                 *)
(***************************************************************************)
EXTENDS Integers, Sequences, FiniteSets, TLC

VARIABLES
    \* ---- Apollo link chain (index.tsx)
    authToken,      \* the stored auth token (what getAuthToken() returns)
    inflight,       \* operations sent and not yet answered, with their headers
    linkEvent,      \* the last thing the link chain did
    \* ---- product image reorder (products/mutations.ts)
    productImages,  \* props.productImages of ProductImagesReorderProvider
    reorderCall,    \* what the last mutate(opts) handed to the Mutation component
    \* ---- the Apollo cache under the reorder mutation
    store,          \* server-confirmed ProductImage entities, by id
    pending,        \* reorder mutations in flight, each with its optimistic layer
    reorderEvent,   \* the last thing that happened to a reorder mutation
    \* ---- bulk selection in a list component
    rows,           \* ids of the rows the list displays (its categories / variants prop)
    listElements,   \* the ids the bulk-selection hook holds as selected
    bulkEvent,      \* the last two things done to the list
    \* ---- list views (ProductList, CategoryList) and TypedMutation
    listView,       \* which view is mounted
    onErrorProp,    \* whether the view passes onError to its TypedMutation
    params,         \* the URL query parameters, as the view receives them
    app,            \* requests in flight, toasts pushed, refetches, callbacks run
    confirms,       \* confirm / submit clicks that dispatch a mutation
    listEvent,      \* the last thing that happened in the view
    \* ---- components and helpers that compute from their arguments alone
    propsIn,        \* the props / arguments of the call
    rendered,       \* what the call returned or rendered
    \* ---- storefront VariantPicker (js/components/variantPicker/VariantPicker.js)
    picker,         \* the component: props, location.search, state.selection, last event
    variantStore,   \* the store shared with VariantPrice: store.variant
    \* ---- legacy dashboard modals (dashboard/js/components/modal.js)
    dom,            \* the modals of the page, their image-select overlays, requests
    \* ---- storefront cart page (the cart handlers of storefront.js)
    cart,           \* the cart lines, the alert cookie, what the page shows
    \* ---- order details view (orders/views/OrderDetails)
    orderView       \* the order, the URL's action, requests dispatched

authVars == <<authToken, inflight, linkEvent>>
reorderVars == <<productImages, reorderCall>>
cacheVars == <<store, pending, reorderEvent>>

bulkVars == <<rows, listElements, bulkEvent>>
listVars == <<listView, onErrorProp, params, app, confirms, listEvent>>
renderVars == <<propsIn, rendered>>
pickerVars == <<picker, variantStore>>
pageVars == <<dom, cart, orderView>>

vars == <<authToken, inflight, linkEvent, productImages, reorderCall,
          store, pending, reorderEvent, rows, listElements, bulkEvent,
          listView, onErrorProp, params, app, confirms, listEvent,
          propsIn, rendered, picker, variantStore, dom, cart, orderView>>

-----------------------------------------------------------------------------
(* Bounds *)

MaxInFlight == 2
MaxImages == 3
MaxPending == 2
MaxConfirms == 2
MaxSubmits == 3
MaxErrors == 3
MaxCalls == 3
MaxCreateErrors == 1
MaxAttributeErrors == 2
MaxPageRequests == 2
MaxPage == 3
MaxCartRequests == 2
MaxTriggerClicks == 3
MaxCartAjax == 2
MaxPageLoads == 3
MaxOrderRequests == 2

-----------------------------------------------------------------------------
(* Apollo link chain: index.tsx *)

NoToken == "null"
Tokens == {"tokA", "tokB"}

\* HTTP status codes of a network error; NoStatus is a network error that
\* carries no statusCode (statusCode?: number).
NoStatus == 0
StatusCodes == {NoStatus, 400, 401, 403, 500}

\* ResponseError: networkError is optional, and so is its statusCode.
ErrorResponses ==
    [hasNetworkError : BOOLEAN, statusCode : StatusCodes, hasGraphQLErrors : BOOLEAN]

WellFormedError(e) ==
    /\ (~e.hasNetworkError => e.statusCode = NoStatus)
    /\ (e.hasNetworkError \/ e.hasGraphQLErrors)

\* auth.removeAuthToken: the stored token is removed.
removeAuthToken(tok) == NoToken

\* auth.getAuthToken: the stored token.
getAuthToken == authToken

\* A plausible slip: the token is dropped on every network error.
invalidTokenLink_AnyNetworkError(error) ==
    error.hasNetworkError

\* invalidTokenLink: TRUE when the handler calls removeAuthToken().
invalidTokenLink(error) ==
    error.hasNetworkError /\ error.statusCode = 401

\* A plausible slip: the header made for an operation still in flight is reused.
authLink_Cached(tok) ==
    IF inflight # << >> THEN inflight[1].Authorization
    ELSE IF tok # NoToken THEN "JWT " \o tok ELSE "null"

\* authLink: the Authorization header set on the operation's context.
authLink(tok) ==
    IF tok # NoToken THEN "JWT " \o tok ELSE "null"

NoEvent == [kind |-> "none", error |-> [hasNetworkError |-> FALSE, statusCode |-> NoStatus, hasGraphQLErrors |-> FALSE],
            tokenBefore |-> NoToken, removeCalled |-> FALSE, header |-> "null"]

-----------------------------------------------------------------------------
(* Apollo link chain: state and steps *)

AuthIdle ==
    /\ authToken = NoToken
    /\ inflight = << >>
    /\ linkEvent = NoEvent

\* Login stores a token (auth.setAuthToken, called by the AuthProvider).
SetAuthToken(t) ==
    /\ authToken' = t
    /\ linkEvent' = [NoEvent EXCEPT !.kind = "login", !.tokenBefore = authToken]
    /\ UNCHANGED inflight

\* An operation passes invalidTokenLink (forwarded), authLink (header set from
\* the token stored now) and reaches uploadLink, which sends it.
SendOperation ==
    /\ Len(inflight) < MaxInFlight
    /\ LET hdr == authLink(getAuthToken) IN
         /\ inflight' = Append(inflight, [Authorization |-> hdr])
         /\ linkEvent' = [NoEvent EXCEPT !.kind = "send", !.tokenBefore = authToken,
                                         !.header = hdr]
    /\ UNCHANGED authToken

RemoveAt(s, i) == SubSeq(s, 1, i - 1) \o SubSeq(s, i + 1, Len(s))

\* uploadLink answers operation i with data: the error link is not run.
ReceiveData(i) ==
    /\ i \in 1..Len(inflight)
    /\ inflight' = RemoveAt(inflight, i)
    /\ linkEvent' = [NoEvent EXCEPT !.kind = "data", !.tokenBefore = authToken]
    /\ UNCHANGED authToken

\* Operation i fails: onError's handler (invalidTokenLink) runs with the error.
ReceiveError(i, error) ==
    /\ i \in 1..Len(inflight)
    /\ WellFormedError(error)
    /\ inflight' = RemoveAt(inflight, i)
    /\ LET called == invalidTokenLink(error) IN
         /\ authToken' = IF called THEN removeAuthToken(authToken) ELSE authToken
         /\ linkEvent' = [NoEvent EXCEPT !.kind = "error", !.error = error,
                                         !.tokenBefore = authToken,
                                         !.removeCalled = called]

-----------------------------------------------------------------------------
(* Product image reorder: products/mutations.ts, ProductImagesReorderProvider *)

Null == "null"
ImageIds == {"a", "b", "c"}
Urls == {"u1", "u2"}

EmptyObj == [k \in {} |-> Null]

\* {...base, ...over}: object spread, later keys win.
Spread(base, over) ==
    [k \in DOMAIN base \cup DOMAIN over |->
        IF k \in DOMAIN over THEN over[k] ELSE base[k]]

\* The fields the ProductImage fragment selects, with __typename.
fragmentProductImage == {"__typename", "id", "alt", "sortOrder", "url"}

\* An image as the props declare it, Array<{id, url}> ...
DeclaredImage(id, url) == [id |-> id, url |-> url]

\* ... and as a query result carries it (every field of the fragment).
QueriedImage(id, url, sortOrder) ==
    [__typename |-> "ProductImage", id |-> id, alt |-> "alt_" \o id,
     sortOrder |-> sortOrder, url |-> url]

SeqsUpTo(S, n) == UNION {[1..k -> S] : k \in 0..n}

DistinctIds(images) ==
    \A i, j \in 1..Len(images) : images[i].id = images[j].id => i = j

\* The values the productImages prop can take: images with distinct ids,
\* each holding the declared fields only or the whole fragment.
ImageValues ==
    {DeclaredImage(id, url) : id \in ImageIds, url \in Urls}
        \cup {QueriedImage(id, url, so) : id \in ImageIds, url \in Urls, so \in {7}}

ProductImagesProps ==
    {images \in SeqsUpTo(ImageValues, Cardinality(ImageIds)) :
        Len(images) <= MaxImages /\ DistinctIds(images)}

\* props.productImages.reduce((prev, curr) => { prev[curr.id] = curr; ... }, {})
\* then productImagesMap[id]: the last image with that id, or undefined
\* (spread as nothing).
productImagesMap(images, id) ==
    LET at == {i \in 1..Len(images) : images[i].id = id} IN
    IF at = {} THEN EmptyObj
    ELSE images[CHOOSE i \in at : \A j \in at : j <= i]

\* A plausible slip: the known image is spread last and overrides sortOrder.
optimisticImage_SpreadLast(images, id, index) ==
    Spread(Spread([__typename |-> "ProductImage"], [sortOrder |-> index]),
           productImagesMap(images, id))

\* { __typename: "ProductImage", ...productImagesMap[id], sortOrder: index }
optimisticImage(images, id, index) ==
    Spread(Spread([__typename |-> "ProductImage"], productImagesMap(images, id)),
           [sortOrder |-> index])

\* opts.variables.imagesIds.map((id, index) => ...), index 0-based
optimisticProductImages(images, imagesIds) ==
    [i \in 1..Len(imagesIds) |-> optimisticImage(images, imagesIds[i], i - 1)]

optimisticResponse(images, variables) ==
    [productImageReorder |->
        [__typename |-> "ProductImageReorder",
         errors |-> Null,
         productImages |-> optimisticProductImages(images, variables.imagesIds)]]

NoCall == [called |-> FALSE,
           props |-> << >>,
           opts |-> [variables |-> [productId |-> "p", imagesIds |-> << >>]],
           optimisticResponse |-> optimisticResponse(<< >>, [imagesIds |-> << >>]),
           variables |-> [productId |-> "p", imagesIds |-> << >>]]

ReorderIdle ==
    /\ productImages = << >>
    /\ reorderCall = NoCall

\* mutate: opts => mutate({ optimisticResponse, variables: opts.variables })
Mutate(opts) ==
    reorderCall' = [called |-> TRUE,
                    props |-> productImages,
                    opts |-> opts,
                    optimisticResponse |-> optimisticResponse(productImages, opts.variables),
                    variables |-> opts.variables]

-----------------------------------------------------------------------------
(* The cache under the reorder mutation: the optimistic response is laid    *)
(* over the store until the server answers (Apollo's optimistic layers);   *)
(* the images are shown in the order of their sortOrder.                   *)

Perms ==
    {s \in [1..Cardinality(ImageIds) -> ImageIds] :
        \A i, j \in DOMAIN s : s[i] = s[j] => i = j}

IndexOf(s, x) == CHOOSE i \in DOMAIN s : s[i] = x

\* The store after the server confirmed the order `order`.
StoreOf(order) ==
    [id \in ImageIds |-> QueriedImage(id, "u1", IndexOf(order, id) - 1)]

\* The entity `id` as one optimistic layer holds it (nothing when absent).
LayerImage(layer, id) ==
    LET at == {i \in 1..Len(layer) : "id" \in DOMAIN layer[i] /\ layer[i].id = id} IN
    IF at = {} THEN EmptyObj ELSE layer[CHOOSE i \in at : \A j \in at : j <= i]

\* The entity read through the layers of the mutations pd[1..k], oldest first.
RECURSIVE ReadThrough(_, _, _, _)
ReadThrough(st, pd, k, id) ==
    IF k = 0 THEN st[id]
    ELSE Spread(ReadThrough(st, pd, k - 1, id), LayerImage(pd[k].layer, id))

ReadImage(st, pd, id) == ReadThrough(st, pd, Len(pd), id)

\* images.sort((prev, next) => (prev.sortOrder > next.sortOrder ? 1 : -1))
DisplayOf(st, pd) ==
    CHOOSE s \in Perms :
        \A i, j \in DOMAIN s :
            i < j => ReadImage(st, pd, s[i]).sortOrder <= ReadImage(st, pd, s[j]).sortOrder

Display == DisplayOf(store, pending)

\* The productImages prop: the product's images as the query result holds them.
ImagesOf(st, pd) ==
    LET d == DisplayOf(st, pd) IN [i \in DOMAIN d |-> ReadImage(st, pd, d[i])]

NoReorderEvent == [kind |-> "none", requested |-> << >>, orderBefore |-> << >>, alone |-> FALSE]

CacheIdle ==
    /\ store = StoreOf(CHOOSE s \in Perms : TRUE)
    /\ pending = << >>
    /\ reorderEvent = NoReorderEvent

\* The user drags an image: onImageReorder calls mutate with the new order of
\* the ids; the optimistic response becomes the newest layer of the cache.
DragReorder(newOrder) ==
    /\ Len(pending) < MaxPending
    /\ newOrder # Display
    /\ Mutate([variables |-> [productId |-> "p", imagesIds |-> newOrder]])
    /\ pending' = Append([k \in DOMAIN pending |-> [pending[k] EXCEPT !.alone = FALSE]],
                         [layer |-> reorderCall'.optimisticResponse.productImageReorder.productImages,
                          requested |-> newOrder,
                          orderBefore |-> Display,
                          alone |-> pending = << >>])
    /\ reorderEvent' = [kind |-> "mutate", requested |-> newOrder,
                        orderBefore |-> Display, alone |-> pending = << >>]
    /\ UNCHANGED store
    /\ productImages' = ImagesOf(store', pending')

\* The server answers mutation k with the reordered images: its layer is
\* dropped and the result is written to the store.
ReorderCompleted(k) ==
    /\ k \in DOMAIN pending
    /\ store' = StoreOf(pending[k].requested)
    /\ pending' = RemoveAt(pending, k)
    /\ reorderEvent' = [kind |-> "data", requested |-> pending[k].requested,
                        orderBefore |-> pending[k].orderBefore, alone |-> pending[k].alone]
    /\ productImages' = ImagesOf(store', pending')
    /\ UNCHANGED reorderCall

\* A plausible slip: the failed mutation's layer is left in place.
RollbackOnError_Keep(pd, k) == pd

\* Apollo's rollback: the failed mutation's optimistic layer is removed.
RollbackOnError(pd, k) == RemoveAt(pd, k)

\* Mutation k fails (transport error, or a payload of user errors and no
\* images): nothing is written to the store.
ReorderFailed(k) ==
    /\ k \in DOMAIN pending
    /\ pending' = RollbackOnError(pending, k)
    /\ reorderEvent' = [kind |-> "error", requested |-> pending[k].requested,
                        orderBefore |-> pending[k].orderBefore, alone |-> pending[k].alone]
    /\ UNCHANGED <<store, reorderCall>>
    /\ productImages' = ImagesOf(store', pending')

-----------------------------------------------------------------------------
(* Bulk selection: useBulkActions as the list components use it             *)
(* (CategoryList, ProductVariants, DiscountProducts).                      *)

RowIds == {"r1", "r2", "r3"}

\* isMember(id) / isChecked(id)
isMember(elements, id) == \E i \in 1..Len(elements) : elements[i] = id

RECURSIVE Without(_, _)
Without(elements, id) ==
    IF elements = << >> THEN << >>
    ELSE IF Head(elements) = id THEN Without(Tail(elements), id)
    ELSE <<Head(elements)>> \o Without(Tail(elements), id)

\* toggle(id): a selected id is removed, an unselected one is added.
toggle(elements, id) ==
    IF isMember(elements, id) THEN Without(elements, id) ELSE Append(elements, id)

RECURSIVE SeqOfSet(_)
SeqOfSet(S) ==
    IF S = {} THEN << >>
    ELSE LET x == CHOOSE y \in S : TRUE IN <<x>> \o SeqOfSet(S \ {x})

\* toggleAll(items, selected): everything selected -> nothing, else everything.
toggleAll(items, selected) ==
    IF selected = Cardinality(items) THEN << >> ELSE SeqOfSet(items)

\* TableHead selected={listElements.length}
selected == Len(listElements)

\* const isSelected = category ? isChecked(category.id) : false
isSelected(id) == isMember(listElements, id)

\* The number of displayed rows whose checkbox is rendered checked.
CheckedRows == Cardinality({id \in rows : isSelected(id)})

NoBulkEvent == [kind |-> "none", id |-> "r1", before |-> << >>,
                prevKind |-> "none", prevId |-> "r1", prevBefore |-> << >>]

BulkEventOf(kind, id) ==
    [kind |-> kind, id |-> id, before |-> listElements,
     prevKind |-> bulkEvent.kind, prevId |-> bulkEvent.id, prevBefore |-> bulkEvent.before]

BulkIdle ==
    /\ rows = {}
    /\ listElements = << >>
    /\ bulkEvent = NoBulkEvent

\* A plausible slip: every checkbox toggles the first row.
CheckboxOnClick_FirstRow(id) ==
    toggle(listElements, CHOOSE r \in rows : TRUE)

\* <Checkbox onClick={event => { toggle(category.id); ... }} /> of row `id`
CheckboxOnClick(id) ==
    toggle(listElements, id)

\* The user clicks the checkbox of a displayed row.
ClickCheckbox(id) ==
    /\ id \in rows
    /\ listElements' = CheckboxOnClick(id)
    /\ bulkEvent' = BulkEventOf("toggle", id)
    /\ UNCHANGED rows

\* The user clicks the table head's checkbox (DiscountProducts: toggleAll).
ClickToggleAll ==
    /\ rows # {}
    /\ listElements' = toggleAll(rows, selected)
    /\ bulkEvent' = BulkEventOf("toggleAll", "r1")
    /\ UNCHANGED rows

\* The list is rendered with other rows (another page, a refetch after a
\* delete): the hook keeps the ids it holds.
RowsChange(newRows) ==
    /\ newRows # rows
    /\ rows' = newRows
    /\ bulkEvent' = BulkEventOf("rows", "r1")
    /\ UNCHANGED listElements

-----------------------------------------------------------------------------
(* List views: the URL carries the dialog state; mutations go through       *)
(* TypedMutation (part_016), ProductList.tsx, CategoryList (part_005).      *)

\* A JS object is the function from its keys with a defined value: a key set
\* to undefined reads as undefined and is skipped by the query stringifier,
\* exactly as an absent key.
Omit(obj, keys) == [k \in DOMAIN obj \ keys |-> obj[k]]

Has(obj, k) == k \in DOMAIN obj

Dialogs == {"delete", "publish", "unpublish"}
Statuses == {"IN_STOCK", "OUT_OF_STOCK"}
Cursors == {"c1"}

\* The selections a toolbar button can pass on.
Selections == {<< >>, <<"r2", "r1">>}

\* stringifyQs then the router's parse: keys without value are not written,
\* an empty array writes nothing.
QueryOf(obj) ==
    [k \in {key \in DOMAIN obj : ~(key = "ids" /\ obj[key] = << >>)} |-> obj[k]]

productListUrl(obj) == QueryOf(obj)
categoryListUrl(obj) == QueryOf(obj)

listUrl(view, obj) ==
    IF view = "products" THEN productListUrl(obj) ELSE categoryListUrl(obj)

\* The queries a list URL can carry.
ListQueries ==
    {QueryOf(Spread(Spread(Spread(a, b), s), d)) :
        a \in {EmptyObj} \cup {[after |-> c] : c \in Cursors},
        b \in {EmptyObj} \cup {[before |-> c] : c \in Cursors},
        s \in {EmptyObj} \cup {[status |-> x] : x \in Statuses},
        d \in {EmptyObj} \cup {[action |-> x, ids |-> i] : x \in Dialogs, i \in Selections}}

\* An effect of a handler: navigate(url), notify / pushMessage(text),
\* refetch(), mutate(variables), onError(error), or a TypeError thrown.
Effect(op, arg) == [op |-> op, arg |-> arg]

\* closeModal: navigate(productListUrl({...params, action: undefined, ids: undefined}), true)
closeModal(view, ps) ==
    <<Effect("navigate", listUrl(view, Omit(ps, {"action", "ids"})))>>

\* A plausible slip: the spread of the current parameters is left out.
openModal_NoSpread(view, ps, action, ids) ==
    <<Effect("navigate", listUrl(view, [action |-> action, ids |-> ids]))>>

\* openModal: navigate(productListUrl({...params, action, ids}))
openModal(view, ps, action, ids) ==
    <<Effect("navigate", listUrl(view, Spread(ps, [action |-> action, ids |-> ids])))>>

\* A plausible slip: the filters are merged into the current parameters.
changeFilters_KeepParams(filters) ==
    <<Effect("navigate", productListUrl(Spread(params, filters)))>>

\* changeFilters: navigate(productListUrl(filters))
changeFilters(filters) ==
    <<Effect("navigate", productListUrl(filters))>>

\* A plausible slip: a dialog opens on any action parameter.
DialogOpen_AnyAction(ps, dialog) == Has(ps, "action")

\* open={params.action === "delete"} and its two siblings
DialogOpen(ps, dialog) == Has(ps, "action") /\ ps.action = dialog

OpenDialogs(view, ps) ==
    {d \in (IF view = "products" THEN Dialogs ELSE {"delete"}) : DialogOpen(ps, d)}

\* A plausible slip: ids is taken for a single id.
onConfirm_Single(ps) ==
    <<Effect("mutate", [hasIds |-> Has(ps, "ids"),
                        ids |-> IF Has(ps, "ids") THEN <<ps.ids[1]>> ELSE << >>])>>

\* onConfirm of the delete dialog: productBulkDelete({ variables: { ids: params.ids } })
onConfirm(ps) ==
    <<Effect("mutate", [hasIds |-> Has(ps, "ids"),
                        ids |-> IF Has(ps, "ids") THEN ps.ids ELSE << >>])>>

\* A plausible slip: a payload with errors dispatches the mutation again.
handleBulkDelete_Retry(view, ps, errors) ==
    IF Len(errors) = 0
    THEN closeModal(view, ps)
    ELSE <<Effect("mutate", [hasIds |-> Has(ps, "ids"),
                             ids |-> IF Has(ps, "ids") THEN ps.ids ELSE << >>])>>

\* handleBulkDelete (ProductList) / handleCategoryBulkDelete (CategoryList)
handleBulkDelete(view, ps, errors) ==
    IF Len(errors) = 0
    THEN IF view = "products"
         THEN closeModal(view, ps)
                \o <<Effect("notify", "Products removed"), Effect("refetch", "")>>
         ELSE <<Effect("navigate", categoryListUrl(EmptyObj)), Effect("refetch", "")>>
    ELSE << >>

\* i18n.t with the key as its own translation: the template's text with the
\* named value put where the placeholder stands.
SomethingWentWrong == [text |-> "Something went wrong: ", placeholder |-> "message"]

i18n_t(template, values) == template.text \o values[template.placeholder]

\* A plausible slip: the caller's onError is called without the guard.
TypedMutationOnError_NoGuard(err, hasOnError) ==
    <<Effect("pushMessage", i18n_t(SomethingWentWrong, [message |-> err.message]))>>
        \o (IF hasOnError THEN <<Effect("onError", err)>> ELSE <<Effect("throw", err)>>)

\* TypedMutation's onError: the toast, then the caller's onError if there is one.
TypedMutationOnError(err, hasOnError) ==
    <<Effect("pushMessage", i18n_t(SomethingWentWrong, [message |-> err.message]))>>
        \o (IF hasOnError THEN <<Effect("onError", err)>> ELSE << >>)

ApolloErrors == {[message |-> "Network error: Failed to fetch"],
                 [message |-> "GraphQL error: Internal server error"]}

UserErrorLists == {<< >>, <<[field |-> "ids", message |-> "Invalid id"]>>}

NoApp == [requests |-> << >>, sent |-> 0, messages |-> << >>, refetches |-> 0,
          onErrorCalls |-> << >>, threw |-> FALSE]

\* What one effect does to the URL and to the application's state.
ApplyEffect(s, e) ==
    IF e.op = "navigate" THEN [s EXCEPT !.params = e.arg]
    ELSE IF e.op \in {"notify", "pushMessage"}
         THEN [s EXCEPT !.app.messages = Append(@, e.arg)]
    ELSE IF e.op = "refetch" THEN [s EXCEPT !.app.refetches = (@ + 1) % (MaxConfirms + 1)]
    ELSE IF e.op = "mutate"
         THEN [s EXCEPT !.app.requests = Append(@, e.arg), !.app.sent = @ + 1]
    ELSE IF e.op = "onError" THEN [s EXCEPT !.app.onErrorCalls = Append(@, e.arg)]
    ELSE [s EXCEPT !.app.threw = TRUE]

RECURSIVE ApplyEffects(_, _)
ApplyEffects(s, es) ==
    IF es = << >> THEN s ELSE ApplyEffects(ApplyEffect(s, Head(es)), Tail(es))

\* What a handler was called with.
Input(action, ids, error) ==
    [action |-> action, ids |-> ids, error |-> error, status |-> Null]

NoError == [message |-> ""]

NoInput == Input("", << >>, NoError)

NoListEvent == [kind |-> "none", paramsBefore |-> EmptyObj, appBefore |-> NoApp,
                effects |-> << >>, input |-> NoInput,
                prevKind |-> "none", prevInput |-> NoInput]

\* A handler ran: its effects are applied, and what it did is recorded.
Run(kind, effects, appNow, input) ==
    LET after == ApplyEffects([params |-> params, app |-> appNow], effects) IN
    /\ params' = after.params
    /\ app' = after.app
    /\ listEvent' = [kind |-> kind, paramsBefore |-> params, appBefore |-> app,
                     effects |-> effects, input |-> input,
                     prevKind |-> listEvent.kind, prevInput |-> listEvent.input]

ListIdle ==
    /\ listView = "none"
    /\ onErrorProp = FALSE
    /\ params = EmptyObj
    /\ app = NoApp
    /\ confirms = 0
    /\ listEvent = NoListEvent

\* A toolbar button: onBulkDelete / onBulkPublish / onBulkUnpublish
OpenModal(action, ids) ==
    /\ action \in (IF listView = "products" THEN Dialogs ELSE {"delete"})
    /\ Run("openModal", openModal(listView, params, action, ids), app,
           Input(action, ids, NoError))
    /\ UNCHANGED <<listView, onErrorProp, confirms>>

\* onClose of an open dialog
CloseModal ==
    /\ OpenDialogs(listView, params) # {}
    /\ Run("closeModal", closeModal(listView, params), app, NoInput)
    /\ UNCHANGED <<listView, onErrorProp, confirms>>

\* onAllProducts / onAvailable / onOfStock
ChangeFilters(filters) ==
    /\ listView = "products"
    /\ Run("changeFilters", changeFilters(filters), app,
           [NoInput EXCEPT !.status = IF Has(filters, "status") THEN filters.status ELSE Null])
    /\ UNCHANGED <<listView, onErrorProp, confirms>>

\* The user confirms the open delete dialog.
ConfirmDelete ==
    /\ DialogOpen(params, "delete")
    /\ confirms < MaxConfirms
    /\ confirms' = confirms + 1
    /\ Run("confirm", onConfirm(params), app, NoInput)
    /\ UNCHANGED <<listView, onErrorProp>>

\* The user confirms the publish or unpublish dialog: console.log(params.ids)
ConfirmLog ==
    /\ listView = "products"
    /\ DialogOpen(params, "publish") \/ DialogOpen(params, "unpublish")
    /\ Run("log", << >>, app, NoInput)
    /\ UNCHANGED <<listView, onErrorProp, confirms>>

\* The server answers request k with a payload: onCompleted(data)
BulkDeleteCompleted(k, errors) ==
    /\ k \in DOMAIN app.requests
    /\ Run(IF Len(errors) = 0 THEN "completed" ELSE "userErrors",
           handleBulkDelete(listView, params, errors),
           [app EXCEPT !.requests = RemoveAt(@, k)], NoInput)
    /\ UNCHANGED <<listView, onErrorProp, confirms>>

\* Request k fails in transport: the Mutation component calls onError(err)
MutationFailed(k, err) ==
    /\ k \in DOMAIN app.requests
    /\ Run("error", TypedMutationOnError(err, onErrorProp),
           [app EXCEPT !.requests = RemoveAt(@, k)], Input("", << >>, err))
    /\ UNCHANGED <<listView, onErrorProp, confirms>>

\* The children of a TypedMutation call mutate, on a form submit.
Submit ==
    /\ confirms < MaxSubmits
    /\ confirms' = confirms + 1
    /\ Run("confirm", <<Effect("mutate", [hasIds |-> FALSE, ids |-> << >>])>>, app, NoInput)
    /\ UNCHANGED <<listView, onErrorProp>>

\* The mutation completes: onCompleted={onCompleted}
MutationCompleted(k) ==
    /\ k \in DOMAIN app.requests
    /\ Run("completed", << >>, [app EXCEPT !.requests = RemoveAt(@, k)], NoInput)
    /\ UNCHANGED <<listView, onErrorProp, confirms>>

-----------------------------------------------------------------------------
(* Components and helpers that compute from their arguments alone.          *)

NotCalled == [called |-> FALSE]

RenderIdle ==
    /\ propsIn = NotCalled
    /\ rendered = NotCalled

\* obj[k] = v
Assign(obj, k, v) == [x \in DOMAIN obj \cup {k} |-> IF x = k THEN v ELSE obj[x]]

\* -- CategoryEditPage.tsx: user errors shown on the form's fields

FormFields == {"name", "description"}
ErrorFields == FormFields \cup {"slug"}
ErrorMessages == {"", "Required", "Too long"}
UserErrors == [field : ErrorFields, message : ErrorMessages]

\* The errors prop: undefined, or a list of user errors.
ErrorsProps ==
    {[defined |-> FALSE, list |-> << >>]}
        \cup {[defined |-> TRUE, list |-> l] : l \in SeqsUpTo(UserErrors, MaxErrors)}

\* errors.reduce((acc, curr) => { acc[curr.field] = curr.message; return acc; }, {})
RECURSIVE reduceErrors(_, _)
reduceErrors(acc, errors) ==
    IF errors = << >> THEN acc
    ELSE reduceErrors(Assign(acc, Head(errors).field, Head(errors).message), Tail(errors))

errorList(errors) == IF errors.defined THEN reduceErrors(EmptyObj, errors.list) ELSE EmptyObj

\* !!value of a string or undefined
Truthy(obj, k) == Has(obj, k) /\ obj[k] # ""

\* The two TextFields: error={!!errorList.name} helperText={errorList.name}, and
\* for the description helperText={errorList.description || i18n.t("Optional")}
CategoryEditPage(errors) ==
    LET el == errorList(errors) IN
    [name |-> [error |-> Truthy(el, "name"),
               helperText |-> IF Has(el, "name") THEN el.name ELSE Null],
     description |-> [error |-> Truthy(el, "description"),
                      helperText |-> IF Truthy(el, "description")
                                     THEN el.description ELSE "Optional"]]

RenderCategoryEditPage ==
    /\ ~rendered.called
    /\ rendered' = [called |-> TRUE, fields |-> CategoryEditPage(propsIn.errors)]
    /\ UNCHANGED propsIn

\* -- createPaginationState: URL cursors to GraphQL connection variables

PAGINATE_BY == 20

\* A cursor parameter as the URL gives it: "?after=" gives the empty string.
CursorValues == {"", "c1"}

PaginationParams ==
    {Spread(a, b) : a \in {EmptyObj} \cup {[after |-> c] : c \in CursorValues},
                    b \in {EmptyObj} \cup {[before |-> c] : c \in CursorValues}}

\* A plausible slip: without a cursor the variables of the previous call are kept.
createPaginationState_Stateful(paginateBy, queryString) ==
    IF Truthy(queryString, "after") THEN [after |-> queryString.after, first |-> paginateBy]
    ELSE IF Truthy(queryString, "before")
         THEN [before |-> queryString.before, last |-> paginateBy]
    ELSE IF rendered # << >> THEN rendered[Len(rendered)].result
    ELSE [first |-> paginateBy]

\* after wins over before; without a cursor the first page is asked for.
createPaginationState(paginateBy, queryString) ==
    IF Truthy(queryString, "after") THEN [after |-> queryString.after, first |-> paginateBy]
    ELSE IF Truthy(queryString, "before")
         THEN [before |-> queryString.before, last |-> paginateBy]
    ELSE [first |-> paginateBy]

\* A view renders: const paginationState = createPaginationState(PAGINATE_BY, params)
CallCreatePaginationState(ps) ==
    /\ Len(rendered) < MaxCalls
    /\ propsIn' = [called |-> TRUE, paginateBy |-> PAGINATE_BY, params |-> ps]
    /\ rendered' = Append(rendered, [args |-> propsIn',
                                     result |-> createPaginationState(PAGINATE_BY, ps)])

\* -- onCompleted handlers of the create views
\*    (ProductDetails.tsx handleSuccess, ProductTypeCreate.tsx handleCreateSuccess,
\*     StaffList.tsx handleStaffMemberAddSuccess)

CreateViews == {"productCreate", "productTypeCreate", "staffCreate"}
ObjectIds == {"id1", "id/2"}

\* The mutation's payload, data.productCreate and its like: null, or errors
\* (null or a list) and the created object (null or with an id).
NoPayload == [present |-> FALSE, errorsDefined |-> FALSE, errors |-> << >>,
              hasObject |-> FALSE, id |-> ""]

CreatePayloads ==
    {NoPayload}
        \cup {[present |-> TRUE, errorsDefined |-> d, errors |-> e, hasObject |-> o, id |-> i] :
                d \in BOOLEAN, e \in SeqsUpTo(UserErrors, MaxCreateErrors),
                o \in BOOLEAN, i \in ObjectIds}

\* Payloads as they can be: no errors list means no entries, no object no id.
WellFormedPayload(pl) ==
    /\ pl.present
    /\ (~pl.errorsDefined => pl.errors = << >>)
    /\ (~pl.hasObject => pl.id = "")

\* encodeURIComponent on the ids used here: "/" is escaped.
encodeURIComponent(id) == IF id = "id/2" THEN "id%2F2" ELSE id

\* The details url of the created object.
detailsUrl(view, id) ==
    IF view = "productCreate" THEN "/products/" \o id \o "/"
    ELSE IF view = "productTypeCreate" THEN "/productTypes/" \o id \o "/"
    ELSE "/staff/" \o encodeURIComponent(id) \o "/"

successText(view) ==
    IF view = "productCreate" THEN "Product created"
    ELSE IF view = "productTypeCreate" THEN "Successfully created product type"
    ELSE "Succesfully added staff member"

TypeError == Effect("throw", "TypeError")

\* navigate(productUrl(data.productCreate.product.id)): reading .id of null throws
navigateToCreated(view, pl) ==
    IF pl.present /\ pl.hasObject
    THEN <<Effect("navigate", detailsUrl(view, pl.id))>>
    ELSE <<TypeError>>

\* A plausible slip: the test on the errors is left out.
handleCreateSuccess_NoTest(view, pl) ==
    <<Effect("pushMessage", successText(view))>> \o navigateToCreated(view, pl)

\* if (data.productCreate.errors.length === 0) { pushMessage(...); navigate(...); }
\* and, in the staff list, if (!maybe(() => data.staffCreate.errors.length)) { ... }
handleCreateSuccess(view, pl) ==
    IF view = "staffCreate"
    THEN IF ~pl.present \/ ~pl.errorsDefined \/ Len(pl.errors) = 0
         THEN <<Effect("pushMessage", successText(view))>> \o navigateToCreated(view, pl)
         ELSE << >>
    ELSE IF ~pl.present \/ ~pl.errorsDefined THEN <<TypeError>>
    ELSE IF Len(pl.errors) = 0
         THEN <<Effect("pushMessage", successText(view))>> \o navigateToCreated(view, pl)
         ELSE << >>

\* Statements run until one throws.
RECURSIVE UntilThrow(_)
UntilThrow(es) ==
    IF es = << >> THEN << >>
    ELSE IF Head(es).op = "throw" THEN <<Head(es)>>
    ELSE <<Head(es)>> \o UntilThrow(Tail(es))

\* The create mutation completes: onCompleted(data)
CreateCompleted ==
    /\ ~rendered.called
    /\ rendered' = [called |-> TRUE,
                    effects |-> UntilThrow(handleCreateSuccess(propsIn.view, propsIn.payload))]
    /\ UNCHANGED propsIn

\* -- products/utils/data.ts: getVariantAttributeErrors

\* A user error's field: null, or a string, held as its parts between colons
\* ("attributes:size" is <<"attributes", "size">>).
ErrorFieldValues ==
    {[isNull |-> TRUE, parts |-> << >>]}
        \cup {[isNull |-> FALSE, parts |-> ps] :
                ps \in {<<"name">>, <<"attributes", "size">>, <<"attributes", "color">>,
                        <<"attributes", "weight">>}}

AttributeErrors == [field : ErrorFieldValues, message : {"Required", "Invalid"}]

VariantAttributes ==
    {<< >>, <<[id |-> "A1", slug |-> "size"]>>,
     <<[id |-> "A1", slug |-> "size"], [id |-> "A2", slug |-> "color"]>>}

\* err.field.split(":")[1]: the second part, undefined when there is none.
\* Null stands for undefined here; on a null field the call throws.
splitSecond(field) == IF Len(field.parts) >= 2 THEN field.parts[2] ELSE Null

\* variantAttributes.find(attribute => attribute.slug === slug): the index of
\* the first match, 0 for undefined.
find(variantAttributes, slug) ==
    LET S == {i \in DOMAIN variantAttributes : variantAttributes[i].slug = slug} IN
    IF S = {} THEN 0 ELSE CHOOSE i \in S : \A j \in S : i <= j

\* The reducer's state: the accumulator, and whether a step has thrown.
RECURSIVE reduceAttributeErrors(_, _, _)
reduceAttributeErrors(acc, errors, variantAttributes) ==
    IF errors = << >> THEN [threw |-> FALSE, value |-> acc]
    ELSE LET err == Head(errors) IN
         IF err.field.isNull THEN [threw |-> TRUE, value |-> acc]
         ELSE LET found == find(variantAttributes, splitSecond(err.field)) IN
              reduceAttributeErrors(
                  IF found # 0 THEN Assign(acc, variantAttributes[found].id, err.message)
                  ELSE acc,
                  Tail(errors), variantAttributes)

\* misc.maybe(exp, d): the value of exp(), d when it throws.
maybe(outcome, d) == IF outcome.threw THEN d ELSE outcome.value

getVariantAttributeErrors(errors, variantAttributes) ==
    maybe(reduceAttributeErrors(EmptyObj, errors, variantAttributes), EmptyObj)

CallGetVariantAttributeErrors ==
    /\ ~rendered.called
    /\ rendered' = [called |-> TRUE,
                    result |-> getVariantAttributeErrors(propsIn.errors,
                                                         propsIn.variantAttributes)]
    /\ UNCHANGED propsIn

\* -- the pagination controls of the list components

PaginatedLists == {"DiscountProducts", "DiscountCategories", "DiscountCollections",
                   "CategoryList", "CollectionList"}

NoPageInfo == [present |-> FALSE, hasNextPage |-> FALSE, hasPreviousPage |-> FALSE]

PageInfos ==
    {[present |-> TRUE, hasNextPage |-> n, hasPreviousPage |-> p] : n, p \in BOOLEAN}

\* CollectionList has no disabled prop; the other lists test it.
\* hasNextPage={pageInfo && !disabled ? pageInfo.hasNextPage : false}
\* hasNextPage={pageInfo ? pageInfo.hasNextPage : false}
TablePagination(list, pageInfo, disabled) ==
    LET on == IF list = "CollectionList" THEN pageInfo.present
              ELSE pageInfo.present /\ ~disabled IN
    [hasNextPage |-> IF on THEN pageInfo.hasNextPage ELSE FALSE,
     hasPreviousPage |-> IF on THEN pageInfo.hasPreviousPage ELSE FALSE]

\* The list is rendered with the props its view gives it: the view is loading
\* (disabled) while a page request is in flight.
RenderList(list, pageInfo, inFlight, page) ==
    /\ propsIn' = [called |-> TRUE, list |-> list, pageInfo |-> pageInfo,
                   disabled |-> inFlight > 0, inFlight |-> inFlight, page |-> page]
    /\ rendered' = [called |-> TRUE] @@ TablePagination(list, pageInfo, inFlight > 0)

\* The page info the query gives while it loads the next page: the previous
\* result's, or none.
WhileLoading(pageInfo) == {pageInfo, NoPageInfo}

\* onNextPage, from an enabled next-page control
ClickNextPage ==
    /\ rendered.hasNextPage
    /\ propsIn.inFlight < MaxPageRequests
    /\ propsIn.page < MaxPage
    /\ \E pi \in WhileLoading(propsIn.pageInfo) :
           RenderList(propsIn.list, pi, propsIn.inFlight + 1, propsIn.page + 1)

\* onPreviousPage, from an enabled previous-page control
ClickPreviousPage ==
    /\ rendered.hasPreviousPage
    /\ propsIn.inFlight < MaxPageRequests
    /\ propsIn.page > 0
    /\ \E pi \in WhileLoading(propsIn.pageInfo) :
           RenderList(propsIn.list, pi, propsIn.inFlight + 1, propsIn.page - 1)

\* A page request is answered.
PageLoaded(pi) ==
    /\ propsIn.inFlight > 0
    /\ pi.hasPreviousPage <=> propsIn.page > 0
    /\ RenderList(propsIn.list, pi, propsIn.inFlight - 1, propsIn.page)

-----------------------------------------------------------------------------
(* Storefront VariantPicker: js/components/variantPicker/VariantPicker.js   *)

\* variantAttributes: each attribute with its pk, name and values (pk, slug).
variantAttributes ==
    <<[pk |-> "1", name |-> "color",
       values |-> <<[pk |-> "11", slug |-> "red"], [pk |-> "12", slug |-> "blue"]>>],
      [pk |-> "2", name |-> "size",
       values |-> <<[pk |-> "21", slug |-> "s"], [pk |-> "22", slug |-> "m"]>>]>>

\* The variants lists a product page can carry: none, variants with distinct
\* attributes, two variants with the same attributes, a variant without any.
VariantLists ==
    {<< >>,
     <<[id |-> "v1", attributes |-> [a \in {"1", "2"} |-> IF a = "1" THEN "11" ELSE "21"]],
       [id |-> "v2", attributes |-> [a \in {"1", "2"} |-> IF a = "1" THEN "12" ELSE "21"]]>>,
     <<[id |-> "v1", attributes |-> [a \in {"1"} |-> "11"]],
       [id |-> "v2", attributes |-> [a \in {"1"} |-> "11"]],
       [id |-> "v3", attributes |-> [a \in {"1"} |-> "12"]]>>,
     <<[id |-> "v0", attributes |-> EmptyObj],
       [id |-> "v1", attributes |-> [a \in {"1", "2"} |-> IF a = "1" THEN "11" ELSE "22"]]>>}

\* queryString.parse(location.search): the parameters in key order.
SearchParams ==
    {<< >>,
     <<[name |-> "color", value |-> "red"]>>,
     <<[name |-> "color", value |-> "red"], [name |-> "size", value |-> "s"]>>,
     <<[name |-> "color", value |-> "blue"], [name |-> "size", value |-> "xl"]>>,
     <<[name |-> "color", value |-> "red"], [name |-> "utm", value |-> "x"]>>,
     <<[name |-> "size", value |-> "m"]>>,
     <<[name |-> "color", value |-> "blue"]>>,
     <<[name |-> "page", value |-> "2"]>>}

NoVariant == "null"

\* The least index of a set of indices, 0 for none: match[0], or null.
First(S) == IF S = {} THEN 0 ELSE CHOOSE i \in S : \A j \in S : i <= j

matchAttribute(id) ==
    First({i \in DOMAIN variantAttributes : variantAttributes[i].pk = id})

matchAttributeByName(name) ==
    First({i \in DOMAIN variantAttributes : variantAttributes[i].name = name})

\* matchAttributeValue, for an attribute that was found
matchAttributeValue(attribute, id) ==
    LET values == variantAttributes[attribute].values IN
    First({i \in DOMAIN values : values[i].pk = id})

matchAttributeValueByName(attribute, name) ==
    IF attribute = 0 THEN 0
    ELSE LET values == variantAttributes[attribute].values IN
         First({i \in DOMAIN values : values[i].slug = name})

\* A plausible slip: the store is written only when a variant matches.
matchVariantFromSelection_OnlyOnMatch(selection, variants) ==
    LET M == {i \in DOMAIN variants : variants[i].attributes = selection} IN
    IF M = {} THEN variantStore.variant
    ELSE variants[CHOOSE i \in M : \A j \in M : j <= i].id

\* matchVariantFromSelection: the variant handed to store.setVariant, the last
\* one in the list whose attributes are _.isEqual to the selection, or null.
matchVariantFromSelection(selection, variants) ==
    LET M == {i \in DOMAIN variants : variants[i].attributes = selection} IN
    IF M = {} THEN NoVariant
    ELSE variants[CHOOSE i \in M : \A j \in M : j <= i].id

\* The constructor's loop over the parameters: Object.keys(params).some(...)
RECURSIVE selectionFromParams(_, _, _)
selectionFromParams(selection, ps, variants) ==
    IF ps = << >> THEN selection
    ELSE LET attribute == matchAttributeByName(Head(ps).name)
             value == matchAttributeValueByName(attribute, Head(ps).value)
             variant == First({i \in DOMAIN variants :
                                  DOMAIN variants[i].attributes # {}}) IN
         IF attribute # 0 /\ value # 0
         THEN selectionFromParams(
                  Assign(selection, variantAttributes[attribute].pk,
                         variantAttributes[attribute].values[value].pk),
                  Tail(ps), variants)
         ELSE IF variant # 0 THEN variants[variant].attributes ELSE EmptyObj

\* A plausible slip: the value's pk is pushed in place of its slug.
RECURSIVE paramsOfSelection_ValuePk(_, _)
paramsOfSelection_ValuePk(selection, a) ==
    IF a > Len(variantAttributes) THEN << >>
    ELSE LET attribute == variantAttributes[a]
             rest == paramsOfSelection_ValuePk(selection, a + 1) IN
         IF /\ Has(selection, attribute.pk)
            /\ matchAttributeValue(a, selection[attribute.pk]) # 0
         THEN <<[name |-> attribute.name, value |-> selection[attribute.pk]]>> \o rest
         ELSE rest

\* The parameters handleAttributeChange pushes to the history: name and slug
\* of every selected attribute whose value is one of the attribute's values.
RECURSIVE paramsOfSelection(_, _)
paramsOfSelection(selection, a) ==
    IF a > Len(variantAttributes) THEN << >>
    ELSE LET attribute == variantAttributes[a]
             rest == paramsOfSelection(selection, a + 1) IN
         IF /\ Has(selection, attribute.pk)
            /\ matchAttribute(attribute.pk) # 0
            /\ matchAttributeValue(a, selection[attribute.pk]) # 0
         THEN <<[name |-> attribute.name,
                 value |-> attribute.values[matchAttributeValue(a, selection[attribute.pk])].slug]>>
                  \o rest
         ELSE rest

\* The text of the quantity input, as its characters.
QuantityInputs ==
    {<<"0">>, <<"2">>, <<"-", "1">>, << >>, <<"a">>, <<"3", "x">>, <<"1", ".", "5">>}

Digits == {"0", "1", "2", "3", "4", "5", "6", "7", "8", "9"}

DigitValue(c) == CHOOSE n \in 0..9 : <<"0", "1", "2", "3", "4", "5", "6", "7", "8", "9">>[n + 1] = c

\* The value of the leading digits of the characters, most significant first.
RECURSIVE leadingDigits(_, _)
leadingDigits(cs, acc) ==
    IF cs = << >> \/ Head(cs) \notin Digits THEN acc
    ELSE leadingDigits(Tail(cs), acc * 10 + DigitValue(Head(cs)))

NaN == [nan |-> TRUE, n |-> 0]

\* parseInt(text): an optional sign, then digits up to the first other
\* character; NaN when no digit follows.
parseInt(cs) ==
    LET neg == cs # << >> /\ Head(cs) = "-"
        body == IF neg THEN Tail(cs) ELSE cs IN
    IF body = << >> \/ Head(body) \notin Digits THEN NaN
    ELSE [nan |-> FALSE, n |-> IF neg THEN 0 - leadingDigits(body, 0)
                                ELSE leadingDigits(body, 0)]

\* store.isEmpty: no variant in the store
isEmpty == variantStore.variant = NoVariant

\* A plausible slip: the test lets a quantity of 0 through.
canAddToCart_NotNegative(quantity) ==
    ~quantity.nan /\ quantity.n >= 0 /\ ~isEmpty

\* quantity > 0 && !store.isEmpty (a comparison with NaN is false)
canAddToCart(quantity) ==
    ~quantity.nan /\ quantity.n > 0 /\ ~isEmpty

PickerIdle ==
    /\ picker = [constructed |-> FALSE]
    /\ variantStore = [variant |-> NoVariant]

\* new VariantPicker(props), with location.search as it is
Construct ==
    /\ ~picker.constructed
    /\ LET selection == selectionFromParams(EmptyObj, picker.search, picker.variants) IN
         /\ picker' = [constructed |-> TRUE, variants |-> picker.variants,
                       search |-> picker.search, selection |-> selection,
                       event |-> "construct", variantBefore |-> variantStore.variant,
                       quantity |-> [nan |-> FALSE, n |-> 1],
                       requests |-> << >>, requestsBefore |-> << >>]
         /\ variantStore' =
                [variant |-> matchVariantFromSelection(selection, picker.variants)]

\* handleAttributeChange(attrId, valueId) with its setState callback
handleAttributeChange(attrId, valueId) ==
    /\ picker.constructed
    /\ LET selection == Assign(picker.selection, attrId, valueId) IN
         /\ picker' = [picker EXCEPT !.selection = selection,
                                     !.search = paramsOfSelection(selection, 1),
                                     !.event = "change",
                                     !.variantBefore = variantStore.variant,
                                     !.requestsBefore = picker.requests]
         /\ variantStore' =
                [variant |-> matchVariantFromSelection(selection, picker.variants)]

\* handleQuantityChange: setState({quantity: parseInt(event.target.value)})
handleQuantityChange(value) ==
    /\ picker.constructed
    /\ picker' = [picker EXCEPT !.quantity = parseInt(value),
                                !.event = "quantity",
                                !.variantBefore = variantStore.variant,
                                !.requestsBefore = picker.requests]
    /\ UNCHANGED variantStore

\* handleAddToCart: the POST with the quantity and store.variant.id
handleAddToCart ==
    /\ picker.constructed
    /\ Len(picker.requests) < MaxCartRequests
    /\ picker' = [picker EXCEPT
                     !.requests = IF canAddToCart(picker.quantity)
                                  THEN Append(@, [quantity |-> picker.quantity.n,
                                                  variant |-> variantStore.variant])
                                  ELSE @,
                     !.event = "addToCart",
                     !.variantBefore = variantStore.variant,
                     !.requestsBefore = picker.requests]
    /\ UNCHANGED variantStore

-----------------------------------------------------------------------------
(* Legacy dashboard modals: dashboard/js/components/modal.js               *)

\* The modal containers a trigger's href can name.
Modals == {"m1", "m2"}

\* The .modal-trigger-custom elements of the page: the modal each one names
\* and whether the response of its data-href has an image-select overlay.
Triggers ==
    {[href |-> "m1", overlay |-> TRUE], [href |-> "m2", overlay |-> FALSE]}

NoOverlay == [present |-> FALSE, handlers |-> 0, checked |-> FALSE, class |-> FALSE]

\* The handler bound in the success callback: the checkbox is flipped and the
\* overlay's checked class is set to the checkbox's new state.
imageSelectClick(overlay) ==
    [overlay EXCEPT !.checked = ~overlay.checked, !.class = ~overlay.checked]

\* A click runs every handler bound to the element, in the order of binding.
RECURSIVE trigger(_, _)
trigger(overlay, handlers) ==
    IF handlers = 0 THEN overlay
    ELSE trigger(imageSelectClick(overlay), handlers - 1)

\* The page once the document is ready: closed and empty modals.
DomReady ==
    [loaded |-> TRUE, modals |-> [m \in Modals |-> NoOverlay], stack |-> << >>,
     requests |-> << >>, clicks |-> 0, event |-> "none", before |-> NoOverlay,
     target |-> "m1"]

\* A click on a .modal-trigger-custom of the page (the page is behind the
\* backdrop while a modal is open): the GET of its data-href is sent.
ClickModalTrigger(t) ==
    /\ dom.loaded
    /\ dom.stack = << >>
    /\ dom.clicks < MaxTriggerClicks
    /\ dom' = [dom EXCEPT !.requests = Append(@, t), !.clicks = @ + 1,
                          !.event = "trigger"]

\* success(response) of the i-th request in flight: the modal's content is
\* replaced and the modal opened, then the click handler is bound to every
\* .image_select-item-overlay of the document.
ModalSuccess(i, checked) ==
    /\ dom.loaded
    /\ i \in DOMAIN dom.requests
    /\ LET t == dom.requests[i]
           html == [dom.modals EXCEPT
                       ![t.href] = IF t.overlay
                                   THEN [present |-> TRUE, handlers |-> 0,
                                         checked |-> checked, class |-> checked]
                                   ELSE NoOverlay] IN
         dom' = [dom EXCEPT
                    !.modals = [m \in Modals |->
                                   IF html[m].present
                                   THEN [html[m] EXCEPT !.handlers = @ + 1]
                                   ELSE html[m]],
                    !.stack = Append(Without(@, t.href), t.href),
                    !.requests = RemoveAt(@, i),
                    !.event = "success"]

\* The modal on top is closed; its content stays in the document.
DismissModal ==
    /\ dom.loaded
    /\ dom.stack # << >>
    /\ dom' = [dom EXCEPT !.stack = SubSeq(@, 1, Len(@) - 1), !.event = "close"]

\* A click on the image-select overlay of the modal on top.
ClickOverlay ==
    /\ dom.loaded
    /\ dom.stack # << >>
    /\ LET m == dom.stack[Len(dom.stack)] IN
         /\ dom.modals[m].present
         /\ dom' = [dom EXCEPT
                       !.modals[m] = trigger(@, @.handlers),
                       !.event = "click", !.before = dom.modals[m], !.target = m]

-----------------------------------------------------------------------------
(* Storefront cart page: the cart handlers of storefront.js                *)

CartLines == {"l1", "l2"}

\* What the user can leave in a line's quantity input.
QuantityTexts == {<<"0">>, <<"2">>, <<"a">>}

\* $quantityInput.val(): the input's value, a string
val(text) == [type |-> "string", text |-> text]

\* The carts the server can hold when the page is first loaded: the quantity
\* of each line, 0 for a line that is not in the cart.
ServerCarts == {[l \in CartLines |-> 1], [l \in CartLines |-> IF l = "l1" THEN 1 ELSE 0]}

\* response.cart.numLines
numLines(server) == Cardinality({l \in CartLines : server[l] > 0})

\* newQuantity === 0: a number equal to 0, never a string
isZero(newQuantity) ==
    newQuantity.type = "number" /\ newQuantity.n = 0

\* A plausible slip: the alert is shown and the cookie left as it is.
alertCookie_NoReset(cookie) ==
    [alert |-> cookie = "true", cookie |-> cookie]

\* The test of the alert cookie when the script runs: the alert is shown and
\* the cookie set to 'false' when it is 'true'.
alertCookie(cookie) ==
    IF cookie = "true" THEN [alert |-> TRUE, cookie |-> "false"]
    ELSE [alert |-> FALSE, cookie |-> cookie]

\* The cart page as the server renders it and the script finds it.
CartPage(server, cookie, loads, alertLoads, cookieSets, cookieBefore) ==
    [loaded |-> TRUE, server |-> server,
     shown |-> {l \in CartLines : server[l] > 0},
     subtotal |-> server,
     alert |-> alertCookie(cookie).alert,
     cookie |-> alertCookie(cookie).cookie,
     requests |-> << >>, reloading |-> FALSE, loads |-> loads,
     alertLoads |-> alertLoads + (IF alertCookie(cookie).alert THEN 1 ELSE 0),
     cookieSets |-> cookieSets,
     event |-> "load", line |-> "l1", text |-> << >>, lines |-> numLines(server),
     before |-> [cookie |-> cookieBefore, alert |-> FALSE, subtotal |-> server,
                 shown |-> {}, reloading |-> FALSE]]

CartBefore ==
    [cookie |-> cart.cookie, alert |-> cart.alert, subtotal |-> cart.subtotal,
     shown |-> cart.shown, reloading |-> cart.reloading]

\* The page is loaded again: by location.reload() or by the user. Requests
\* of the page that is left are not answered to the new one.
LoadCartPage ==
    /\ cart.loaded
    /\ cart.loads < MaxPageLoads
    /\ cart' = CartPage(cart.server, cart.cookie, cart.loads + 1, cart.alertLoads,
                        cart.cookieSets, cart.cookie)

\* change on a line's quantity input: the POST of the new quantity. The user
\* acts on the page until location.reload() takes it away.
ChangeQuantity(line, text) ==
    /\ cart.loaded
    /\ ~cart.reloading
    /\ line \in cart.shown
    /\ Len(cart.requests) < MaxCartAjax
    /\ cart' = [cart EXCEPT
                   !.requests = Append(@, [kind |-> "change", line |-> line,
                                           newQuantity |-> val(text)]),
                   !.event = "change", !.before = CartBefore]

\* click on a line's delete icon: the POST of quantity 0
ClickDelete(line) ==
    /\ cart.loaded
    /\ ~cart.reloading
    /\ line \in cart.shown
    /\ Len(cart.requests) < MaxCartAjax
    /\ cart' = [cart EXCEPT
                   !.requests = Append(@, [kind |-> "delete", line |-> line,
                                           newQuantity |-> [type |-> "number", n |-> 0]]),
                   !.event = "delete", !.before = CartBefore]

\* The quantity the server reads in a request.
posted(newQuantity) ==
    IF newQuantity.type = "number" THEN [nan |-> FALSE, n |-> newQuantity.n]
    ELSE parseInt(newQuantity.text)

\* success(response) of the i-th request in flight, for a quantity the server
\* accepts: the line's quantity is replaced, a quantity of 0 removes it.
CartSuccess(i) ==
    /\ cart.loaded
    /\ i \in DOMAIN cart.requests
    /\ LET r == cart.requests[i]
           q == posted(r.newQuantity)
           server == [cart.server EXCEPT ![r.line] = q.n]
           removed == IF r.kind = "change" THEN isZero(r.newQuantity) ELSE TRUE
           empty == IF r.kind = "change" THEN numLines(server) = 0
                    ELSE ~(numLines(server) >= 1) IN
         /\ ~q.nan
         /\ q.n >= 0
         /\ cart' = [cart EXCEPT
                !.server = server,
                !.requests = RemoveAt(@, i),
                !.cookie = IF removed /\ empty THEN "true" ELSE @,
                !.cookieSets = IF removed /\ empty THEN @ + 1 ELSE @,
                !.reloading = IF removed /\ empty THEN TRUE ELSE @,
                !.alert = IF removed /\ ~empty THEN TRUE ELSE @,
                !.shown = IF removed /\ ~empty THEN @ \ {r.line} ELSE @,
                !.subtotal = IF r.kind = "change" /\ ~removed
                             THEN [@ EXCEPT ![r.line] = q.n] ELSE @,
                !.event = IF r.kind = "change" THEN "changeSuccess" ELSE "deleteSuccess",
                !.line = r.line,
                !.text = IF r.kind = "change" THEN r.newQuantity.text ELSE << >>,
                !.lines = numLines(server),
                !.before = CartBefore]

\* error(response) of the i-th request: the server refuses the quantity and
\* the line shows the error.
CartError(i) ==
    /\ cart.loaded
    /\ i \in DOMAIN cart.requests
    /\ posted(cart.requests[i].newQuantity).nan
    /\ cart' = [cart EXCEPT !.requests = RemoveAt(@, i), !.event = "error",
                            !.before = CartBefore]

\* click on .close-msg
CloseMsg ==
    /\ cart.loaded
    /\ cart.alert
    /\ cart' = [cart EXCEPT !.alert = FALSE, !.event = "close", !.before = CartBefore]

-----------------------------------------------------------------------------
(* Order details view: orders/views/OrderDetails                           *)

\* The orders the query can return: a draft, an unfulfilled order, and an
\* order whose first line is fully fulfilled.
Orders ==
    {[status |-> "DRAFT",
      lines |-> <<[id |-> "ol1", quantity |-> 1, quantityFulfilled |-> 0]>>],
     [status |-> "UNFULFILLED",
      lines |-> <<[id |-> "ol1", quantity |-> 2, quantityFulfilled |-> 0],
                  [id |-> "ol2", quantity |-> 1, quantityFulfilled |-> 0]>>],
     [status |-> "PARTIALLY_FULFILLED",
      lines |-> <<[id |-> "ol1", quantity |-> 2, quantityFulfilled |-> 2],
                  [id |-> "ol2", quantity |-> 2, quantityFulfilled |-> 1],
                  [id |-> "ol3", quantity |-> 1, quantityFulfilled |-> 0]>>]}

\* The <Route>s rendered only when order.status !== OrderStatus.DRAFT, each
\* with the url function of its path and the dialog it renders open.
NotDraftRoutes ==
    <<[path |-> "orderCancelUrl", dialog |-> "OrderCancelDialog"],
      [path |-> "orderMarkAsPaidUrl", dialog |-> "OrderMarkAsPaidDialog"],
      [path |-> "orderPaymentVoidUrl", dialog |-> "OrderPaymentVoidDialog"],
      [path |-> "orderPaymentCaptureUrl", dialog |-> "OrderPaymentDialog"],
      [path |-> "orderPaymentRefundUrl", dialog |-> "OrderPaymentDialog"],
      [path |-> "orderFulfillUrl", dialog |-> "OrderFulfillmentDialog"],
      [path |-> "orderFulfillmentCancelUrl", dialog |-> "OrderFulfillmentCancelDialog"],
      [path |-> "orderFulfillmentEditTrackingUrl",
       dialog |-> "OrderFulfillmentTrackingDialog"]>>

\* The <Route>s rendered after the two pages, whatever the order's status.
CommonRoutes ==
    <<[path |-> "orderShippingAddressEditUrl", dialog |-> "OrderAddressEditDialog"],
      [path |-> "orderBillingAddressEditUrl", dialog |-> "OrderAddressEditDialog"],
      [path |-> "orderDraftFinalizeUrl", dialog |-> "OrderDraftFinalizeDialog"],
      [path |-> "orderCancelUrl", dialog |-> "OrderDraftCancelDialog"],
      [path |-> "orderDraftShippingMethodUrl", dialog |-> "OrderShippingMethodEditDialog"],
      [path |-> "orderDraftLineAddUrl", dialog |-> "OrderProductAddDialog"]>>

OrderUrls ==
    {"orderUrl"} \cup {NotDraftRoutes[i].path : i \in DOMAIN NotDraftRoutes}
                 \cup {CommonRoutes[i].path : i \in DOMAIN CommonRoutes}

\* The dialogs of a draft order.
DraftDialogs ==
    {"OrderDraftFinalizeDialog", "OrderDraftCancelDialog",
     "OrderShippingMethodEditDialog", "OrderProductAddDialog"}

\* The mutation each confirming dialog dispatches.
DialogMutations ==
    [d \in {"OrderCancelDialog", "OrderMarkAsPaidDialog", "OrderPaymentVoidDialog",
            "OrderDraftFinalizeDialog", "OrderDraftCancelDialog"} |->
        CASE d = "OrderCancelDialog" -> "orderCancel"
          [] d = "OrderMarkAsPaidDialog" -> "orderPaymentMarkAsPaid"
          [] d = "OrderPaymentVoidDialog" -> "orderVoid"
          [] d = "OrderDraftFinalizeDialog" -> "orderDraftFinalize"
          [] d = "OrderDraftCancelDialog" -> "orderDraftCancel"]

\* The dialogs rendered with open = true for an order at a URL: a <Route>
\* renders its dialog, with open={!!match}, when its path matches.
OpenOrderDialogs(order, url) ==
    {NotDraftRoutes[i].dialog : i \in {j \in DOMAIN NotDraftRoutes :
                                           /\ order.status # "DRAFT"
                                           /\ NotDraftRoutes[j].path = url}}
    \cup {CommonRoutes[i].dialog : i \in {j \in DOMAIN CommonRoutes :
                                             CommonRoutes[j].path = url}}

\* The URLs the buttons of the page navigate to: OrderDetailsPage for an
\* order that is not a draft, OrderDraftPage for a draft.
PageLinks(order) ==
    IF order.status # "DRAFT"
    THEN {"orderCancelUrl", "orderFulfillUrl", "orderFulfillmentCancelUrl",
          "orderFulfillmentEditTrackingUrl", "orderPaymentCaptureUrl",
          "orderPaymentVoidUrl", "orderPaymentRefundUrl",
          "orderBillingAddressEditUrl", "orderShippingAddressEditUrl",
          "orderMarkAsPaidUrl"}
    ELSE {"orderDraftFinalizeUrl", "orderCancelUrl", "orderDraftLineAddUrl",
          "orderBillingAddressEditUrl", "orderShippingAddressEditUrl",
          "orderDraftShippingMethodUrl"}

\* The quantities the fulfillment dialog can be given for a line.
LineQuantities == {0, 1, 2}

\* lines of OrderFulfillmentDialog: the order's lines not yet fully fulfilled
fulfillmentDialogLines(order) ==
    SelectSeq(order.lines, LAMBDA line : line.quantityFulfilled < line.quantity)

\* The quantities the dialog starts with: what is left of each line shown.
initialQuantities(order) ==
    [i \in DOMAIN fulfillmentDialogLines(order) |->
        fulfillmentDialogLines(order)[i].quantity
            - fulfillmentDialogLines(order)[i].quantityFulfilled]

\* The form of the fulfillment dialog at a URL: mounted with its route.
formAt(order, url) ==
    IF "OrderFulfillmentDialog" \in OpenOrderDialogs(order, url)
    THEN initialQuantities(order) ELSE << >>

RECURSIVE positive(_)
positive(lines) ==
    IF lines = << >> THEN << >>
    ELSE IF Head(lines).defined /\ Head(lines).quantity > 0
         THEN <<[orderLineId |-> Head(lines).orderLineId,
                 quantity |-> Head(lines).quantity]>> \o positive(Tail(lines))
         ELSE positive(Tail(lines))

\* A plausible slip: the quantities are paired with all the order's lines.
fulfillmentInputLines_AllLines(order, quantities) ==
    positive([lineIndex \in DOMAIN order.lines |->
                 [orderLineId |-> order.lines[lineIndex].id,
                  defined |-> lineIndex \in DOMAIN quantities,
                  quantity |-> IF lineIndex \in DOMAIN quantities
                               THEN quantities[lineIndex] ELSE 0]])

\* input.lines of orderCreateFulfillment: the lines not yet fully fulfilled,
\* each with variables.lines[lineIndex], those with a quantity > 0 kept
\* (a quantity that is undefined is not > 0).
fulfillmentInputLines(order, quantities) ==
    LET lines == SelectSeq(order.lines,
                           LAMBDA line : line.quantityFulfilled < line.quantity) IN
    positive([lineIndex \in DOMAIN lines |->
                 [orderLineId |-> lines[lineIndex].id,
                  defined |-> lineIndex \in DOMAIN quantities,
                  quantity |-> IF lineIndex \in DOMAIN quantities
                               THEN quantities[lineIndex] ELSE 0]])

OrderMounted(order, url) ==
    [mounted |-> TRUE, order |-> order, url |-> url, form |-> formAt(order, url),
     requests |-> << >>, dispatched |-> 0, event |-> "mount",
     last |-> [mutation |-> "none", lines |-> << >>]]

\* navigate(url): by a button of the page, by onModalClose, or by the user
\* in the address bar.
NavigateOrder(url) ==
    /\ orderView.mounted
    /\ url # orderView.url
    /\ \/ url = "orderUrl"
       \/ orderView.url = "orderUrl" /\ url \in PageLinks(orderView.order)
       \/ url \in OrderUrls
    /\ orderView' = [orderView EXCEPT !.url = url,
                                      !.form = formAt(orderView.order, url),
                                      !.event = "navigate"]

\* The i-th quantity of the open fulfillment dialog is changed.
ChangeFulfillmentQuantity(i, quantity) ==
    /\ orderView.mounted
    /\ "OrderFulfillmentDialog" \in OpenOrderDialogs(orderView.order, orderView.url)
    /\ i \in DOMAIN orderView.form
    /\ orderView' = [orderView EXCEPT !.form[i] = quantity, !.event = "change"]

\* onSubmit of the open fulfillment dialog: orderCreateFulfillment.mutate
SubmitFulfillment ==
    /\ orderView.mounted
    /\ "OrderFulfillmentDialog" \in OpenOrderDialogs(orderView.order, orderView.url)
    /\ orderView.dispatched < MaxOrderRequests
    /\ LET request == [mutation |-> "orderCreateFulfillment",
                       lines |-> fulfillmentInputLines(orderView.order, orderView.form)] IN
         orderView' = [orderView EXCEPT !.requests = Append(@, request),
                                        !.dispatched = @ + 1,
                                        !.last = request,
                                        !.event = "submitFulfillment"]

\* onConfirm / onSubmit of an open dialog that takes no input.
ConfirmOrderDialog(dialog) ==
    /\ orderView.mounted
    /\ dialog \in OpenOrderDialogs(orderView.order, orderView.url)
    /\ dialog \in DOMAIN DialogMutations
    /\ orderView.dispatched < MaxOrderRequests
    /\ LET request == [mutation |-> DialogMutations[dialog], lines |-> << >>] IN
         orderView' = [orderView EXCEPT !.requests = Append(@, request),
                                        !.dispatched = @ + 1,
                                        !.last = request,
                                        !.event = "confirm"]

\* The fulfilled quantity of a line after a fulfillment of the given lines.
fulfilled(line, lines) ==
    LET S == {k \in DOMAIN lines : lines[k].orderLineId = line.id} IN
    IF S = {} THEN line.quantityFulfilled
    ELSE LET sum == line.quantityFulfilled + lines[CHOOSE k \in S : TRUE].quantity IN
         IF sum > line.quantity THEN line.quantity ELSE sum

\* The i-th mutation in flight completes: a fulfillment is added to the
\* order, and the dialog is closed or, on errors, stays open unchanged.
OrderMutationCompleted(i, errors) ==
    /\ orderView.mounted
    /\ i \in DOMAIN orderView.requests
    /\ LET r == orderView.requests[i]
           order == IF errors \/ r.mutation # "orderCreateFulfillment"
                    THEN orderView.order
                    ELSE [orderView.order EXCEPT
                             !.lines = [k \in DOMAIN orderView.order.lines |->
                                           [id |-> orderView.order.lines[k].id,
                                            quantity |-> orderView.order.lines[k].quantity,
                                            quantityFulfilled |->
                                                fulfilled(orderView.order.lines[k], r.lines)]],
                             !.status = "PARTIALLY_FULFILLED"] IN
         orderView' = [orderView EXCEPT
                          !.requests = RemoveAt(@, i),
                          !.order = order,
                          !.url = IF errors THEN @ ELSE "orderUrl",
                          !.form = IF errors THEN @ ELSE << >>,
                          !.event = "completed"]

IdsOf(images) == [i \in 1..Len(images) |-> images[i].id]

IsPermutationOf(s, t) ==
    /\ Len(s) = Len(t)
    /\ \A x \in ImageIds :
         Cardinality({i \in 1..Len(s) : s[i] = x}) = Cardinality({i \in 1..Len(t) : t[i] = x})

-----------------------------------------------------------------------------
(* Specifications: each part moves its own variables, the others rest.     *)

notDomVars ==
    <<authVars, reorderVars, cacheVars, bulkVars, listVars, renderVars, pickerVars,
      cart, orderView>>

notCartVars ==
    <<authVars, reorderVars, cacheVars, bulkVars, listVars, renderVars, pickerVars,
      dom, orderView>>

notOrderVars ==
    <<authVars, reorderVars, cacheVars, bulkVars, listVars, renderVars, pickerVars,
      dom, cart>>

PagesIdle ==
    /\ dom = [loaded |-> FALSE]
    /\ cart = [loaded |-> FALSE]
    /\ orderView = [mounted |-> FALSE]

notAuthVars == <<reorderVars, cacheVars, bulkVars, listVars, renderVars, pickerVars, pageVars>>
notReorderVars == <<authVars, bulkVars, listVars, renderVars, pickerVars, pageVars>>
notBulkVars == <<authVars, reorderVars, cacheVars, listVars, renderVars, pickerVars, pageVars>>
notListVars == <<authVars, reorderVars, cacheVars, bulkVars, renderVars, pickerVars, pageVars>>
notPickerVars == <<authVars, reorderVars, cacheVars, bulkVars, listVars, renderVars, pageVars>>
notRenderVars == <<authVars, reorderVars, cacheVars, bulkVars, listVars, pickerVars, pageVars>>

\* -- the Apollo link chain
InitAuth ==
    /\ authToken \in Tokens \cup {NoToken}
    /\ inflight = << >>
    /\ linkEvent = NoEvent
    /\ ReorderIdle
    /\ CacheIdle
    /\ BulkIdle
    /\ ListIdle
    /\ RenderIdle
    /\ PickerIdle
    /\ PagesIdle

NextAuth ==
    \/ \E t \in Tokens : SetAuthToken(t) /\ UNCHANGED notAuthVars
    \/ SendOperation /\ UNCHANGED notAuthVars
    \/ \E i \in 1..MaxInFlight : ReceiveData(i) /\ UNCHANGED notAuthVars
    \/ \E i \in 1..MaxInFlight, e \in ErrorResponses :
          ReceiveError(i, e) /\ UNCHANGED notAuthVars

Spec == InitAuth /\ [][NextAuth]_vars

\* -- the reorder provider as a function of its props and the variables
InitReorderFn ==
    /\ productImages \in ProductImagesProps
    /\ reorderCall = NoCall
    /\ AuthIdle
    /\ CacheIdle
    /\ BulkIdle
    /\ ListIdle
    /\ RenderIdle
    /\ PickerIdle
    /\ PagesIdle

NextReorderFn ==
    \E ids \in SeqsUpTo(ImageIds, MaxImages) :
        Mutate([variables |-> [productId |-> "p", imagesIds |-> ids]])
           /\ UNCHANGED <<productImages, cacheVars, notReorderVars>>

SpecReorderFn == InitReorderFn /\ [][NextReorderFn]_vars

\* -- the reorder mutation against the cache
InitReorder ==
    /\ \E order \in Perms : store = StoreOf(order)
    /\ pending = << >>
    /\ reorderEvent = NoReorderEvent
    /\ productImages = ImagesOf(store, pending)
    /\ reorderCall = NoCall
    /\ AuthIdle
    /\ BulkIdle
    /\ ListIdle
    /\ RenderIdle
    /\ PickerIdle
    /\ PagesIdle

NextReorder ==
    \/ \E order \in Perms : DragReorder(order) /\ UNCHANGED notReorderVars
    \/ \E k \in 1..MaxPending : ReorderCompleted(k) /\ UNCHANGED notReorderVars
    \/ \E k \in 1..MaxPending : ReorderFailed(k) /\ UNCHANGED notReorderVars

SpecReorder == InitReorder /\ [][NextReorder]_vars

\* -- a list with bulk selection
InitBulk ==
    /\ rows \in SUBSET RowIds
    /\ listElements = << >>
    /\ bulkEvent = NoBulkEvent
    /\ AuthIdle
    /\ ReorderIdle
    /\ CacheIdle
    /\ ListIdle
    /\ RenderIdle
    /\ PickerIdle
    /\ PagesIdle

NextBulk ==
    \/ \E id \in RowIds : ClickCheckbox(id) /\ UNCHANGED notBulkVars
    \/ ClickToggleAll /\ UNCHANGED notBulkVars
    \/ \E newRows \in SUBSET RowIds : RowsChange(newRows) /\ UNCHANGED notBulkVars

SpecBulk == InitBulk /\ [][NextBulk]_vars

\* -- the product list and the category list
InitList ==
    /\ listView \in {"products", "categories"}
    /\ onErrorProp = FALSE
    /\ params \in {q \in ListQueries :
                        listView = "categories" =>
                            /\ ~Has(q, "status")
                            /\ (Has(q, "action") => q.action = "delete")}
    /\ app = NoApp
    /\ confirms = 0
    /\ listEvent = NoListEvent
    /\ AuthIdle
    /\ ReorderIdle
    /\ CacheIdle
    /\ BulkIdle
    /\ RenderIdle
    /\ PickerIdle
    /\ PagesIdle

NextList ==
    \/ \E a \in Dialogs, ids \in Selections : OpenModal(a, ids) /\ UNCHANGED notListVars
    \/ CloseModal /\ UNCHANGED notListVars
    \/ \E f \in {EmptyObj} \cup {[status |-> x] : x \in Statuses} :
          ChangeFilters(f) /\ UNCHANGED notListVars
    \/ ConfirmDelete /\ UNCHANGED notListVars
    \/ ConfirmLog /\ UNCHANGED notListVars
    \/ \E k \in 1..MaxConfirms, errors \in UserErrorLists :
          BulkDeleteCompleted(k, errors) /\ UNCHANGED notListVars
    \/ \E k \in 1..MaxConfirms, err \in ApolloErrors :
          MutationFailed(k, err) /\ UNCHANGED notListVars

SpecList == InitList /\ [][NextList]_vars

\* -- a component made by TypedMutation, with or without the onError prop
InitMutation ==
    /\ listView = "provider"
    /\ onErrorProp \in BOOLEAN
    /\ params = EmptyObj
    /\ app = NoApp
    /\ confirms = 0
    /\ listEvent = NoListEvent
    /\ AuthIdle
    /\ ReorderIdle
    /\ CacheIdle
    /\ BulkIdle
    /\ RenderIdle
    /\ PickerIdle
    /\ PagesIdle

NextMutation ==
    \/ Submit /\ UNCHANGED notListVars
    \/ \E k \in 1..MaxSubmits : MutationCompleted(k) /\ UNCHANGED notListVars
    \/ \E k \in 1..MaxSubmits, err \in ApolloErrors :
          MutationFailed(k, err) /\ UNCHANGED notListVars

SpecMutation == InitMutation /\ [][NextMutation]_vars

\* -- CategoryEditPage rendered with an errors prop
InitFormErrors ==
    /\ propsIn \in {[called |-> TRUE, errors |-> e] : e \in ErrorsProps}
    /\ rendered = NotCalled
    /\ AuthIdle
    /\ ReorderIdle
    /\ CacheIdle
    /\ BulkIdle
    /\ ListIdle
    /\ PickerIdle
    /\ PagesIdle

NextFormErrors == RenderCategoryEditPage /\ UNCHANGED notRenderVars

SpecFormErrors == InitFormErrors /\ [][NextFormErrors]_vars

\* -- list views rendering one after another, each deriving its pagination state
InitPagination ==
    /\ propsIn = NotCalled
    /\ rendered = << >>
    /\ AuthIdle
    /\ ReorderIdle
    /\ CacheIdle
    /\ BulkIdle
    /\ ListIdle
    /\ PickerIdle
    /\ PagesIdle

NextPagination ==
    \E ps \in PaginationParams : CallCreatePaginationState(ps) /\ UNCHANGED notRenderVars

SpecPagination == InitPagination /\ [][NextPagination]_vars

\* -- a create view whose mutation is about to complete
InitCreate ==
    /\ propsIn \in {[called |-> TRUE, view |-> v, payload |-> pl] :
                       v \in CreateViews,
                       pl \in {NoPayload} \cup {x \in CreatePayloads : WellFormedPayload(x)}}
    /\ rendered = NotCalled
    /\ AuthIdle
    /\ ReorderIdle
    /\ CacheIdle
    /\ BulkIdle
    /\ ListIdle
    /\ PickerIdle
    /\ PagesIdle

NextCreate == CreateCompleted /\ UNCHANGED notRenderVars

SpecCreate == InitCreate /\ [][NextCreate]_vars

\* -- getVariantAttributeErrors called with a list of errors and of attributes
InitAttributeErrors ==
    /\ propsIn \in {[called |-> TRUE, errors |-> e, variantAttributes |-> va] :
                       e \in SeqsUpTo(AttributeErrors, MaxAttributeErrors),
                       va \in VariantAttributes}
    /\ rendered = NotCalled
    /\ AuthIdle
    /\ ReorderIdle
    /\ CacheIdle
    /\ BulkIdle
    /\ ListIdle
    /\ PickerIdle
    /\ PagesIdle

NextAttributeErrors == CallGetVariantAttributeErrors /\ UNCHANGED notRenderVars

SpecAttributeErrors == InitAttributeErrors /\ [][NextAttributeErrors]_vars

\* -- a paginated list under its view, from the first page request on
InitPaging ==
    /\ \E list \in PaginatedLists :
          /\ propsIn = [called |-> TRUE, list |-> list, pageInfo |-> NoPageInfo,
                        disabled |-> TRUE, inFlight |-> 1, page |-> 0]
          /\ rendered = [called |-> TRUE] @@ TablePagination(list, NoPageInfo, TRUE)
    /\ AuthIdle
    /\ ReorderIdle
    /\ CacheIdle
    /\ BulkIdle
    /\ ListIdle
    /\ PickerIdle
    /\ PagesIdle

NextPaging ==
    \/ ClickNextPage /\ UNCHANGED notRenderVars
    \/ ClickPreviousPage /\ UNCHANGED notRenderVars
    \/ \E pi \in PageInfos : PageLoaded(pi) /\ UNCHANGED notRenderVars

SpecPaging == InitPaging /\ [][NextPaging]_vars

\* -- the variant picker on a product page
InitPicker ==
    /\ picker \in {[constructed |-> FALSE, variants |-> vs, search |-> s] :
                      vs \in VariantLists, s \in SearchParams}
    /\ variantStore = [variant |-> NoVariant]
    /\ AuthIdle
    /\ ReorderIdle
    /\ CacheIdle
    /\ BulkIdle
    /\ ListIdle
    /\ RenderIdle
    /\ PagesIdle

NextPicker ==
    \/ Construct /\ UNCHANGED notPickerVars
    \/ \E a \in DOMAIN variantAttributes :
          \E v \in DOMAIN variantAttributes[a].values :
              /\ handleAttributeChange(variantAttributes[a].pk,
                                       variantAttributes[a].values[v].pk)
              /\ UNCHANGED notPickerVars
    \/ \E value \in QuantityInputs : handleQuantityChange(value) /\ UNCHANGED notPickerVars
    \/ handleAddToCart /\ UNCHANGED notPickerVars

SpecPicker == InitPicker /\ [][NextPicker]_vars

\* -- the legacy dashboard's modals
InitModal ==
    /\ dom = DomReady
    /\ cart = [loaded |-> FALSE]
    /\ orderView = [mounted |-> FALSE]
    /\ AuthIdle
    /\ ReorderIdle
    /\ CacheIdle
    /\ BulkIdle
    /\ ListIdle
    /\ RenderIdle
    /\ PickerIdle

NextModal ==
    \/ \E t \in Triggers : ClickModalTrigger(t) /\ UNCHANGED notDomVars
    \/ \E i \in 1..MaxTriggerClicks, checked \in BOOLEAN :
          ModalSuccess(i, checked) /\ UNCHANGED notDomVars
    \/ DismissModal /\ UNCHANGED notDomVars
    \/ ClickOverlay /\ UNCHANGED notDomVars

SpecModal == InitModal /\ [][NextModal]_vars

\* -- the storefront cart page
InitCart ==
    /\ cart \in {CartPage(server, cookie, 0, 0, 0, cookie) :
                    server \in ServerCarts, cookie \in {"none", "false"}}
    /\ dom = [loaded |-> FALSE]
    /\ orderView = [mounted |-> FALSE]
    /\ AuthIdle
    /\ ReorderIdle
    /\ CacheIdle
    /\ BulkIdle
    /\ ListIdle
    /\ RenderIdle
    /\ PickerIdle

NextCart ==
    \/ LoadCartPage /\ UNCHANGED notCartVars
    \/ \E line \in CartLines, text \in QuantityTexts :
          ChangeQuantity(line, text) /\ UNCHANGED notCartVars
    \/ \E line \in CartLines : ClickDelete(line) /\ UNCHANGED notCartVars
    \/ \E i \in 1..MaxCartAjax : CartSuccess(i) /\ UNCHANGED notCartVars
    \/ \E i \in 1..MaxCartAjax : CartError(i) /\ UNCHANGED notCartVars
    \/ CloseMsg /\ UNCHANGED notCartVars

SpecCart == InitCart /\ [][NextCart]_vars

\* -- the order details view
InitOrder ==
    /\ orderView \in {OrderMounted(order, "orderUrl") : order \in Orders}
    /\ dom = [loaded |-> FALSE]
    /\ cart = [loaded |-> FALSE]
    /\ AuthIdle
    /\ ReorderIdle
    /\ CacheIdle
    /\ BulkIdle
    /\ ListIdle
    /\ RenderIdle
    /\ PickerIdle

NextOrder ==
    \/ \E url \in OrderUrls : NavigateOrder(url) /\ UNCHANGED notOrderVars
    \/ \E i \in 1..3, quantity \in LineQuantities :
          ChangeFulfillmentQuantity(i, quantity) /\ UNCHANGED notOrderVars
    \/ SubmitFulfillment /\ UNCHANGED notOrderVars
    \/ \E dialog \in DOMAIN DialogMutations :
          ConfirmOrderDialog(dialog) /\ UNCHANGED notOrderVars
    \/ \E i \in 1..MaxOrderRequests, errors \in BOOLEAN :
          OrderMutationCompleted(i, errors) /\ UNCHANGED notOrderVars

SpecOrder == InitOrder /\ [][NextOrder]_vars

-----------------------------------------------------------------------------
(* C2: when imagesIds is a permutation of the ids of props.productImages,   *)
(* the optimistic response lists the images in the order of imagesIds, the *)
(* image at position i (0-based) having sortOrder i and the id and url of  *)
(* the known image with that id; errors is null; the variables handed to   *)
(* the underlying mutation are the caller's variables.                     *)
C2_OptimisticOrder ==
    (reorderCall.called
        /\ IsPermutationOf(reorderCall.opts.variables.imagesIds, IdsOf(reorderCall.props))) =>
        LET ids == reorderCall.opts.variables.imagesIds
            out == reorderCall.optimisticResponse.productImageReorder
        IN  /\ out.errors = Null
            /\ Len(out.productImages) = Len(ids)
            /\ \A i \in 1..Len(ids) :
                 /\ out.productImages[i].sortOrder = i - 1
                 /\ out.productImages[i].id = ids[i]
                 /\ \E k \in 1..Len(reorderCall.props) :
                      /\ reorderCall.props[k].id = ids[i]
                      /\ out.productImages[i].url = reorderCall.props[k].url
            /\ reorderCall.variables = reorderCall.opts.variables

\* A real reorder of three images, one of which came with a sortOrder.
C2_Witness ==
    /\ reorderCall.called
    /\ Len(reorderCall.props) = 3
    /\ IsPermutationOf(reorderCall.opts.variables.imagesIds, IdsOf(reorderCall.props))
    /\ reorderCall.opts.variables.imagesIds # IdsOf(reorderCall.props)
    /\ \E k \in 1..3 : "sortOrder" \in DOMAIN reorderCall.props[k]

\* C3: every optimistic image carries every field of the
\* ProductImage fragment (__typename, id, alt, sortOrder, url), whatever the
\* productImages prop holds and whatever ids imagesIds names.
C3_OptimisticShape ==
    reorderCall.called =>
        \A i \in 1..Len(reorderCall.opts.variables.imagesIds) :
            fragmentProductImage \subseteq
                DOMAIN reorderCall.optimisticResponse.productImageReorder.productImages[i]

-----------------------------------------------------------------------------
(* C1: right after an operation fails, removeAuthToken has been called and  *)
(* the stored token is gone exactly when the error carries a network error *)
(* whose statusCode is 401; for an error without a network error, or with  *)
(* any other status code, the stored token is the one held before.         *)
C1_TokenRemovedOn401Only ==
    linkEvent.kind = "error" =>
        LET e == linkEvent.error IN
        IF e.hasNetworkError /\ e.statusCode = 401
        THEN linkEvent.removeCalled /\ authToken = NoToken
        ELSE ~linkEvent.removeCalled /\ authToken = linkEvent.tokenBefore

\* A 401 has just removed a stored token.
C1_Witness ==
    /\ linkEvent.kind = "error"
    /\ linkEvent.error.hasNetworkError
    /\ linkEvent.error.statusCode = 401
    /\ linkEvent.tokenBefore \in Tokens
    /\ authToken = NoToken


\* C4 (as claimed): from mutate until the server answers the displayed order
\* is the requested order, and after a failed reorder the displayed order is
\* the order held before that mutate was called.
C4_RevertsToOrderBefore ==
    /\ \A k \in DOMAIN pending : Display = pending[k].requested
    /\ reorderEvent.kind = "error" => Display = reorderEvent.orderBefore

\* C4 (amended): a reorder that is the only one in flight from its mutate to
\* its answer shows the requested order until the server answers and, when it
\* fails, the order held before mutate was called; with reorders overlapping
\* the newest pending request is shown, and once nothing is in flight the
\* display is the order the store holds (no optimistic order outlives an error).
C4_RevertsWhenAlone ==
    /\ \A k \in DOMAIN pending : pending[k].alone => Display = pending[k].requested
    /\ (reorderEvent.kind = "error" /\ reorderEvent.alone) =>
            Display = reorderEvent.orderBefore
    /\ pending # << >> => Display = pending[Len(pending)].requested
    /\ pending = << >> => Display = DisplayOf(store, << >>)
    /\ (reorderEvent.kind = "error" /\ pending = << >>) =>
            \A id \in ImageIds : ReadImage(store, pending, id) = store[id]

\* A lone reorder has failed and the display is back at the earlier order.
C4_Witness ==
    /\ reorderEvent.kind = "error"
    /\ reorderEvent.alone
    /\ pending = << >>
    /\ reorderEvent.requested # reorderEvent.orderBefore
    /\ Display = reorderEvent.orderBefore

ParamOf(ps, k) == IF Has(ps, k) THEN ps[k] ELSE Null

\* The ids of the URL; an empty selection is not written to the URL.
ParamIds(ps) == IF Has(ps, "ids") THEN ps.ids ELSE << >>

\* C7: in the product list each of the three dialogs is open exactly when the
\* URL parameter action equals its name, so at most one is open at any time;
\* after openModal it is the dialog asked for, after closeModal none.
C7_DialogFollowsUrl ==
    listView = "products" =>
        /\ \A d \in Dialogs : DialogOpen(params, d) <=> ParamOf(params, "action") = d
        /\ Cardinality(OpenDialogs(listView, params)) <= 1
        /\ listEvent.kind = "openModal" =>
               OpenDialogs(listView, params) = {listEvent.input.action}
        /\ listEvent.kind = "closeModal" => OpenDialogs(listView, params) = {}

\* One dialog was open and openModal has replaced it by another.
C7_Witness ==
    /\ listView = "products"
    /\ listEvent.kind = "openModal"
    /\ DialogOpen(listEvent.paramsBefore, "delete")
    /\ DialogOpen(params, "publish")

\* C8: in both list views openModal sets action and ids and keeps every other
\* URL parameter; closing without confirming removes action and ids and keeps
\* every other URL parameter.
C8_OnlyActionAndIdsChange ==
    /\ listEvent.kind = "openModal" =>
           /\ Omit(params, {"action", "ids"})
                  = Omit(listEvent.paramsBefore, {"action", "ids"})
           /\ ParamOf(params, "action") = listEvent.input.action
           /\ ParamIds(params) = listEvent.input.ids
    /\ listEvent.kind = "closeModal" =>
           /\ Omit(params, {"action", "ids"})
                  = Omit(listEvent.paramsBefore, {"action", "ids"})
           /\ ~Has(params, "action")
           /\ ~Has(params, "ids")

\* The category list opened its dialog from a URL that carries a cursor.
C8_Witness ==
    /\ listView = "categories"
    /\ listEvent.kind = "openModal"
    /\ Has(listEvent.paramsBefore, "after")
    /\ ~Has(listEvent.paramsBefore, "action")
    /\ listEvent.input.ids # << >>
    /\ Has(params, "after")

\* C9: every request was caused by exactly one user confirm: a confirm sends
\* one request, nothing else sends any, and a request that failed (transport
\* error or user errors) leaves no new request behind.
C9_NoAutomaticRedispatch ==
    /\ app.sent = confirms
    /\ listEvent.kind = "confirm" => app.sent = listEvent.appBefore.sent + 1
    /\ listEvent.kind # "confirm" => app.sent = listEvent.appBefore.sent
    /\ listEvent.kind \in {"error", "userErrors"} =>
           Len(app.requests) = Len(listEvent.appBefore.requests) - 1

\* A first request failed in transport, the user confirmed again, and the
\* second request came back with user errors.
C9_Witness ==
    /\ listEvent.kind = "userErrors"
    /\ Len(app.messages) = 1
    /\ confirms = 2
    /\ app.requests = << >>

\* C10: a transport error pushes exactly one message, "Something went wrong: "
\* followed by the error's message, then calls the caller's onError once with
\* that error if one was supplied; without one the message is still pushed and
\* nothing throws.
C10_OneToastThenOnError ==
    listEvent.kind = "error" =>
        LET err == listEvent.input.error
            before == listEvent.appBefore
            text == "Something went wrong: " \o err.message IN
        /\ app.messages = Append(before.messages, text)
        /\ listEvent.effects[1] = Effect("pushMessage", text)
        /\ onErrorProp =>
               /\ Len(listEvent.effects) = 2
               /\ listEvent.effects[2] = Effect("onError", err)
               /\ app.onErrorCalls = Append(before.onErrorCalls, err)
        /\ ~onErrorProp =>
               /\ Len(listEvent.effects) = 1
               /\ app.onErrorCalls = before.onErrorCalls
        /\ ~app.threw

\* A mutation given an onError has failed twice in transport.
C10_Witness ==
    /\ listEvent.kind = "error"
    /\ onErrorProp
    /\ Len(app.messages) = 2
    /\ Len(app.onErrorCalls) = 2
    /\ listEvent.input.error.message = "Network error: Failed to fetch"


\* The index of the last entry of the list that names the field, 0 if none.
LastFor(list, f) ==
    LET S == {i \in 1..Len(list) : list[i].field = f} IN
    IF S = {} THEN 0 ELSE CHOOSE i \in S : \A j \in S : j <= i

\* C11: each of the name and description inputs is marked in error exactly
\* when the errors list has an entry for that field, showing the message of the
\* last such entry; with undefined or empty errors no input is marked.
C11_FieldErrorsShown ==
    rendered.called =>
        \A f \in FormFields :
            LET list == propsIn.errors.list
                last == LastFor(list, f) IN
            /\ rendered.fields[f].error <=> last # 0
            /\ last # 0 => rendered.fields[f].helperText = list[last].message


\* GraphQL connection variables: a page size forwards, with or without a
\* cursor, or a page size backwards with a cursor.
ConnectionVariables ==
    {[first |-> PAGINATE_BY]}
        \cup {[after |-> c, first |-> PAGINATE_BY] : c \in CursorValues}
        \cup {[before |-> c, last |-> PAGINATE_BY] : c \in CursorValues}

C13_HeaderFromTokenAtSend ==
    [][/\ linkEvent'.kind = "send" =>
            /\ Len(inflight') = Len(inflight) + 1
            /\ inflight'[Len(inflight')].Authorization
                   = (IF authToken = NoToken THEN "null" ELSE "JWT " \o authToken)
            /\ \A i \in DOMAIN inflight : inflight'[i] = inflight[i]
       /\ (authToken = NoToken /\ linkEvent'.kind # "login") => authToken' = NoToken
      ]_vars

\* An operation sent with a token is still in flight; a 401 has removed the
\* token since, and the operation just sent carries a null header.
C13_Witness ==
    /\ linkEvent.kind = "send"
    /\ authToken = NoToken
    /\ Len(inflight) = 2
    /\ inflight[1].Authorization = "JWT tokA"
    /\ inflight[2].Authorization = "null"


\* C14: the bulk-delete toolbar button writes the selection it is given to
\* the URL parameter ids; confirming sends one request whose ids are the URL's
\* ids; so a confirm that follows the button sends exactly the selection the
\* button was pressed with, in both list views.
C14_SentIdsAreSelectedIds ==
    LET sentIds == app.requests[Len(app.requests)] IN
    /\ (listEvent.kind = "openModal" /\ listEvent.input.action = "delete") =>
           ParamIds(params) = listEvent.input.ids
    /\ listEvent.kind = "confirm" =>
           /\ app.requests = Append(listEvent.appBefore.requests, sentIds)
           /\ sentIds.ids = ParamIds(listEvent.paramsBefore)
           /\ sentIds.hasIds = Has(listEvent.paramsBefore, "ids")
           /\ (listEvent.prevKind = "openModal" /\ listEvent.prevInput.action = "delete") =>
                  sentIds.ids = listEvent.prevInput.ids

\* The category list: the button was pressed with two rows selected, then the
\* dialog was confirmed.
C14_Witness ==
    /\ listView = "categories"
    /\ listEvent.kind = "confirm"
    /\ listEvent.prevKind = "openModal"
    /\ listEvent.prevInput.ids = <<"r2", "r1">>
    /\ Len(app.requests) = 1


\* C15: when the product bulk delete completes with an empty errors list the
\* dialog is closed, "Products removed" is pushed and the list is refetched;
\* with user errors the URL is unchanged and nothing is pushed or refetched.
C15_SuccessEffectsIffNoErrors ==
    listView = "products" =>
        LET before == listEvent.appBefore IN
        /\ listEvent.kind = "completed" =>
               /\ params = Omit(listEvent.paramsBefore, {"action", "ids"})
               /\ OpenDialogs(listView, params) = {}
               /\ app.messages = Append(before.messages, "Products removed")
               /\ app.refetches = before.refetches + 1
        /\ listEvent.kind = "userErrors" =>
               /\ params = listEvent.paramsBefore
               /\ app.messages = before.messages
               /\ app.refetches = before.refetches

\* One delete came back with user errors and left the dialog open, then a
\* second one completed without errors.
C15_Witness ==
    /\ listView = "products"
    /\ listEvent.kind = "completed"
    /\ listEvent.prevKind = "userErrors"
    /\ DialogOpen(listEvent.paramsBefore, "delete")
    /\ app.messages = <<"Products removed">>
    /\ app.refetches = 1


\* Whether a handler made the call.
Did(effects, op) == \E i \in DOMAIN effects : effects[i].op = op

\* C16: in the create views the success message is pushed and the view
\* navigates to the details page only for a payload with zero user errors;
\* with user errors, or with no created object, neither happens.
C16_SuccessOnlyWithoutErrors ==
    rendered.called =>
        LET pl == propsIn.payload
            done == rendered.effects IN
        /\ (Did(done, "pushMessage") \/ Did(done, "navigate")) => Len(pl.errors) = 0
        /\ (Len(pl.errors) > 0 \/ ~pl.present \/ ~pl.hasObject) =>
               ~Did(done, "pushMessage") /\ ~Did(done, "navigate")


\* The errors whose field is "attributes:<slug>" for the given slug.
MatchingErrors(errors, slug) ==
    {i \in DOMAIN errors :
        /\ ~errors[i].field.isNull
        /\ errors[i].field.parts = <<"attributes", slug>>}

\* C17: every error whose field is "attributes:<slug>" of a listed attribute
\* is in the result under that attribute's id, the last such error winning;
\* no other key is in the result; other errors in the list, with a null field
\* or a field without a colon, remove nothing.
C17_EveryAttributeErrorShown ==
    rendered.called =>
        LET errors == propsIn.errors
            attrs == propsIn.variantAttributes IN
        \A a \in DOMAIN attrs :
            LET M == MatchingErrors(errors, attrs[a].slug) IN
            IF M = {} THEN ~Has(rendered.result, attrs[a].id)
            ELSE /\ Has(rendered.result, attrs[a].id)
                 /\ rendered.result[attrs[a].id]
                        = errors[CHOOSE i \in M : \A j \in M : j <= i].message


\* C18: in every paginated list a page control is enabled only if page info
\* is present, the list is not disabled and the page info says there is such
\* a page; so no page navigation starts while a page request is in flight.
C18_ControlsOffWhileLoading ==
    /\ rendered.hasNextPage =>
           propsIn.pageInfo.present /\ ~propsIn.disabled /\ propsIn.pageInfo.hasNextPage
    /\ rendered.hasPreviousPage =>
           propsIn.pageInfo.present /\ ~propsIn.disabled /\ propsIn.pageInfo.hasPreviousPage
    /\ propsIn.inFlight <= 1


\* C19: changing the stock filter of the product list leaves a URL that
\* carries the new status and nothing else: no cursor, no dialog parameter; no
\* dialog is open afterwards.
C19_FilterUrlCarriesOnlyStatus ==
    listEvent.kind = "changeFilters" =>
        /\ DOMAIN params \subseteq {"status"}
        /\ (IF Has(params, "status") THEN params.status ELSE Null) = listEvent.input.status
        /\ OpenDialogs(listView, params) = {}

\* The filter was changed on a later page with a dialog open.
C19_Witness ==
    /\ listEvent.kind = "changeFilters"
    /\ Has(listEvent.paramsBefore, "after")
    /\ DialogOpen(listEvent.paramsBefore, "delete")
    /\ Has(listEvent.paramsBefore, "ids")
    /\ Has(listEvent.paramsBefore, "status")
    /\ listEvent.paramsBefore.status = "OUT_OF_STOCK"
    /\ params = [status |-> "IN_STOCK"]


\* C20: once the picker is constructed, and after every attribute change,
\* store.variant is the last variant of the list whose attributes equal the
\* selection, and null when no variant has them.
C20_StoreFollowsSelection ==
    picker.constructed =>
        LET M == {i \in DOMAIN picker.variants :
                     picker.variants[i].attributes = picker.selection} IN
        /\ M = {} => variantStore.variant = NoVariant
        /\ M # {} =>
               \E j \in M : /\ \A k \in M : k <= j
                            /\ variantStore.variant = picker.variants[j].id

\* A change of attribute left a selection no variant has: the variant that
\* was in the store is gone from it.
C20_Witness ==
    /\ picker.constructed
    /\ picker.event = "change"
    /\ picker.variantBefore # NoVariant
    /\ variantStore.variant = NoVariant


\* C21: a click on add-to-cart sends a request exactly when the quantity is a
\* number greater than 0 and the store holds a variant; with a quantity of 0,
\* a negative one or NaN, or with no variant, nothing is sent; the request
\* carries the store's variant and the current quantity.
C21_AddToCartGuarded ==
    (picker.constructed /\ picker.event = "addToCart") =>
        LET q == picker.quantity
            ok == ~q.nan /\ q.n > 0 /\ variantStore.variant # NoVariant IN
        /\ ok => picker.requests
                     = Append(picker.requestsBefore,
                              [quantity |-> q.n, variant |-> variantStore.variant])
        /\ ~ok => picker.requests = picker.requestsBefore

\* Add-to-cart was clicked with an unparsable quantity while a variant is
\* matched, after an earlier request went out.
C21_Witness ==
    /\ picker.constructed
    /\ picker.event = "addToCart"
    /\ picker.quantity.nan
    /\ variantStore.variant # NoVariant
    /\ Len(picker.requests) = 1
    /\ picker.requests = picker.requestsBefore



\* C22: the query string pushed by an attribute change, read back by the
\* constructor, gives the selection that was pushed, and with it the variant
\* that is in the store.
C22_UrlRoundTrip ==
    (picker.constructed /\ picker.event = "change") =>
        LET selection == selectionFromParams(EmptyObj, picker.search, picker.variants) IN
        /\ selection = picker.selection
        /\ matchVariantFromSelection(selection, picker.variants) = variantStore.variant

\* A change completed a selection of two attributes that a variant has: the
\* pushed query names both, by attribute name and value slug.
C22_Witness ==
    /\ picker.constructed
    /\ picker.event = "change"
    /\ DOMAIN picker.selection = {"1", "2"}
    /\ variantStore.variant = "v2"
    /\ picker.search = <<[name |-> "color", value |-> "blue"],
                         [name |-> "size", value |-> "s"]>>



\* C23: constructed with no query parameters, or with a parameter that names
\* an unknown attribute or value, the picker selects the attributes of the
\* first variant that has any.
C23_DefaultSelection ==
    (/\ picker.constructed
     /\ picker.event = "construct"
     /\ \E i \in DOMAIN picker.variants : DOMAIN picker.variants[i].attributes # {}
     /\ \/ picker.search = << >>
        \/ \E k \in DOMAIN picker.search :
              matchAttributeValueByName(matchAttributeByName(picker.search[k].name),
                                        picker.search[k].value) = 0)
    => picker.selection
           = picker.variants[First({i \in DOMAIN picker.variants :
                                       DOMAIN picker.variants[i].attributes # {}})].attributes



\* C24: whatever modals were opened before, a click on an image-select
\* overlay flips its checkbox once and leaves the overlay's checked class
\* equal to the checkbox.
C24_ClickTogglesOnce ==
    (dom.loaded /\ dom.event = "click") =>
        /\ dom.modals[dom.target].checked = ~dom.before.checked
        /\ dom.modals[dom.target].class = dom.modals[dom.target].checked



\* C25: when a line's quantity is changed to 0 and the request succeeds, the
\* line is removed (the cookie set and the page reloaded when no line is left,
\* else the alert shown and the line faded out) and its subtotal is left
\* alone; for any other quantity the subtotal is rewritten.
C25_ZeroQuantityRemoves ==
    (cart.loaded /\ cart.event = "changeSuccess") =>
        IF parseInt(cart.text) = [nan |-> FALSE, n |-> 0]
        THEN /\ cart.lines = 0 => cart.cookie = "true" /\ cart.reloading
             /\ cart.lines # 0 => cart.alert /\ cart.line \notin cart.shown
             /\ cart.subtotal = cart.before.subtotal
        ELSE cart.subtotal[cart.line] = cart.server[cart.line]

\* C26: a page load shows the alert exactly when the cookie was 'true' and
\* leaves the cookie other than 'true'; the cookie is 'true' only from a
\* removal that emptied the cart to the next page load, so the loads that
\* showed the alert never outnumber those removals.
C26_AlertOncePerRemoval ==
    cart.loaded =>
        /\ cart.event = "load" =>
               /\ cart.alert <=> cart.before.cookie = "true"
               /\ cart.cookie # "true"
        /\ cart.alertLoads <= cart.cookieSets
        /\ cart.cookie = "true" => cart.alertLoads < cart.cookieSets
        /\ (cart.event = "deleteSuccess" /\ cart.lines = 0) =>
               cart.cookie = "true" /\ cart.reloading

\* The cart was emptied, the page loaded with the alert, and loaded once
\* more: the second load shows no alert.
C26_Witness ==
    /\ cart.loaded
    /\ cart.event = "load"
    /\ cart.cookieSets = 1
    /\ cart.alertLoads = 1
    /\ cart.before.cookie = "false"
    /\ ~cart.alert



\* C27: for every order and URL at most one order dialog is open, and a
\* dialog of draft orders is open only for an order whose status is DRAFT.
C27_AtMostOneDialog ==
    orderView.mounted =>
        LET open == OpenOrderDialogs(orderView.order, orderView.url) IN
        /\ Cardinality(open) <= 1
        /\ open \cap DraftDialogs # {} => orderView.order.status = "DRAFT"

\* C28: a fulfillment request holds, in the dialog's order, exactly the lines
\* shown in the dialog whose quantity in the dialog is greater than 0, each
\* with the quantity entered at its own position; every line sent is a line
\* of the order that is not fully fulfilled.
C28_FulfillmentPairsLines ==
    (orderView.mounted /\ orderView.event = "submitFulfillment") =>
        LET sent == orderView.last.lines
            order == orderView.order
            shown == {i \in DOMAIN order.lines :
                         order.lines[i].quantityFulfilled < order.lines[i].quantity}
            \* the position in the dialog of the order's i-th line
            position(i) == Cardinality({j \in shown : j <= i})
            entered(i) == IF position(i) \in DOMAIN orderView.form
                          THEN orderView.form[position(i)] ELSE 0 IN
        /\ \A k \in DOMAIN sent :
              \E i \in shown : /\ order.lines[i].id = sent[k].orderLineId
                               /\ sent[k].quantity = entered(i)
                               /\ sent[k].quantity > 0
        /\ \A i \in shown : entered(i) > 0 =>
              \E k \in DOMAIN sent : sent[k].orderLineId = order.lines[i].id
        /\ \A k, l \in DOMAIN sent : k # l => sent[k].orderLineId # sent[l].orderLineId

\* A fulfillment was submitted for an order whose first line is fully
\* fulfilled, with different quantities entered for the two lines shown.
C28_Witness ==
    /\ orderView.mounted
    /\ orderView.event = "submitFulfillment"
    /\ orderView.order.lines[1].quantityFulfilled = orderView.order.lines[1].quantity
    /\ orderView.last.lines = <<[orderLineId |-> "ol2", quantity |-> 2],
                                [orderLineId |-> "ol3", quantity |-> 1]>>

=============================================================================
